---- MODULE Spec2Model ----
(***************************************************************************)
(* Provider layer of OM1: the lifecycle of ASRProvider and                 *)
(* ElevenLabsTTSProvider (start/stop under a lock, side effects outside    *)
(* it, the reconnect monitor thread) and the SimplePathsProvider pipeline  *)
(* (zenoh callback -> bounded data queue -> derivation loop).              *)
(*                                                                         *)
(* Caller threads run the public methods one statement group at a time,    *)
(* so that every interleaving the threads can produce is a behaviour.      *)
(* A `with self._lock:` block is two steps: acquiring the lock, then the   *)
(* body together with the release.  A call into a collaborator that is not *)
(* part of the repository (ws.Client, AudioInputStream, AudioOutputStream) *)
(* either takes effect or raises.                                          *)
(***************************************************************************)
EXTENDS Integers, Sequences, FiniteSets, TLC

\* Caller threads of the providers' public methods.
NumCallers == 2
\* Calls the callers make in one run, all methods together.
MaxCalls == 3
Callers == 1..NumCallers
\* Holder of ASRProvider._lock when the reconnect monitor thread has it.
Monitor == NumCallers + 1
\* Holder of ASRProvider._lock when a monitor thread that was replaced has it.
OldMonitor == NumCallers + 3
\* Lock value when nobody holds it.
Free == 0 - 1

VARIABLES
  \* ---- caller threads
  pc,                \* pc[t]: where caller t stands inside the method it runs
  result,            \* result[t]: how t's last call ended: "none", "ok", "raised"
  warnings,          \* warnings[t]: logging.warning calls made by t's current/last call
  errors,            \* errors[t]: logging.error calls made by t's current/last call
  entered_running,   \* entered_running[t]: the running flag t's call found under the lock
  calls,             \* calls entered so far
  may_raise,         \* TRUE iff collaborator calls can raise in this run
  op,                \* op[t]: the method t runs or ran last
  raised_in,         \* raised_in[t]: the collaborator call that raised in t's call, or "none"
  \* ---- ASRProvider
  running,           \* self.running
  lock,              \* self._lock: Free or its holder
  stream_url,        \* TRUE iff a stream_url was given (stream_ws_client is not None)
  ws_client,         \* TRUE iff self.ws_client is started
  stream_ws_client,  \* TRUE iff self.stream_ws_client is started
  audio_stream,      \* TRUE iff self.audio_stream is started
  audio_callback,    \* client the audio data callback sends to: "ws" or "stream"
  stop_reconnect,    \* self._stop_reconnect (threading.Event)
  reconnect_attempts,\* self._reconnect_attempts
  reconnect_thread,  \* the monitor thread: "none", "loop", "should", "locked", "wait", "exited"
  \* ---- ElevenLabsTTSProvider
  tts_running,       \* self.running
  tts_lock,          \* self._lock: Free or its holder
  tts_audio_stream,  \* self._audio_stream: which AudioOutputStream object it is
  tts_streams,       \* the AudioOutputStream objects made so far: url, started, requests
  tts_params,        \* self._voice_id, _model_id, _output_format and the keys, as one value
  tts_local,         \* tts_local[t]: the locals of the method t runs
  \* ---- SimplePathsProvider: the zenoh callback of the worker process
  data_queue,        \* self.data_queue, oldest frame first
  arrived,           \* messages handed to paths_callback so far
  cb_pc,             \* where paths_callback stands: "idle", "evict_get", "evict_put"
  cb_frame,          \* the frame paths_callback is putting
  cb_last,           \* how the last finished paths_callback ended
  \* ---- SimplePathsProvider: the derivation thread and the snapshot it writes
  d_pc,              \* where _simple_paths_derived_processor stands
  paths,             \* its local `paths`: the frame taken from the queue
  d_i,               \* elements of paths.paths the for loop has visited
  consumed,          \* ids of the frames taken from the queue, in order
  first_get,         \* value of `arrived` when the first frame was taken, or -1
  turn_left,         \* self.turn_left
  turn_right,        \* self.turn_right
  advance,           \* self.advance
  retreat,           \* self.retreat
  valid_paths,       \* self._valid_paths
  lidar_string,      \* self._lidar_string
  \* ---- ASRProvider._attempt_reconnect and what it acts on
  a_pc,              \* where the call of _attempt_reconnect stands, "idle" outside it
  a_attempts,        \* its local `attempts`
  a_delay,           \* its local `delay`, in seconds
  a_prev,            \* how the previous call ended, and the delay it computed
  attempt_calls,     \* calls of _attempt_reconnect so far
  ws_callbacks,      \* message callbacks registered on the current ws_client object
  stream_callbacks,  \* message callbacks registered on the current stream_ws_client object
  registered,        \* message callbacks register_message_callback has registered so far
  connection_lost,   \* TRUE iff the connection of the started ws_client has dropped
  terminal_errors,   \* "Maximum reconnection attempts reached" errors logged so far
  \* ---- SimplePathsProvider.start / stop and the workers they spawn
  sp_pc,             \* where the caller of start()/stop() stands
  sp_stop_event,     \* self._stop_event
  control_queue,     \* self.control_queue
  proc,              \* the worker process: "none", "opening", "loop", "hung", "exited"
  derived_thread,    \* the derivation thread: "none", "running", "exited"
  \* ---- simple_paths_processor: what the worker process did before its loop
  subscriber,        \* TRUE iff the current worker declared its "om/paths" subscriber
  open_errors,       \* "Failed to open Zenoh session" errors logged so far
  taken,             \* commands the worker took from the control queue, in order
  \* ---- background plugins
  backgrounds,       \* the constructions of background plugins so far, in order
  \* ---- ASRProvider: monitor threads self._reconnect_thread no longer refers to
  old_monitors,      \* their positions in the loop, the live ones only
  \* ---- SimplePathsProvider: a second thread that calls start()
  sp2_pc,            \* where it stands in start()
  orphans            \* live workers the provider's attributes no longer refer to

callerVars == <<calls, may_raise, pc, result, warnings, errors, entered_running, op, raised_in>>
asrVars == <<running, lock, stream_url, ws_client, stream_ws_client, audio_stream,
             audio_callback, stop_reconnect, reconnect_attempts, reconnect_thread>>
ttsObjVars == <<tts_audio_stream, tts_streams, tts_params, tts_local>>
ttsVars == <<tts_running, tts_lock, ttsObjVars>>
callbackVars == <<data_queue, arrived, cb_pc, cb_frame, cb_last>>
derivedVars == <<d_pc, paths, d_i, consumed, first_get>>
snapshotVars == <<turn_left, turn_right, advance, retreat, valid_paths, lidar_string>>
pathVars == <<callbackVars, derivedVars, snapshotVars>>
lifecycleVars == <<callerVars, asrVars, ttsVars>>
attemptVars == <<a_pc, a_attempts, a_delay, a_prev, attempt_calls, ws_callbacks,
                 stream_callbacks, registered>>
monitorVars == <<connection_lost, terminal_errors>>
spVars == <<sp_pc, sp_stop_event, control_queue, proc, derived_thread>>
workerVars == <<subscriber, open_errors, taken>>
hostVars == <<backgrounds>>
raceVars == <<old_monitors>>
starterVars == <<sp2_pc, orphans>>
laterVars == <<raceVars, starterVars>>
\* The later variables without raceVars, and without starterVars.
exceptRace == <<starterVars>>
exceptStarter == <<raceVars>>
moreVars == <<workerVars, hostVars, laterVars>>
extraVars == <<attemptVars, monitorVars, spVars, moreVars>>
vars == <<lifecycleVars, pathVars, extraVars>>

\* self._max_reconnect_attempts
MaxReconnectAttempts == 10

InitCallers ==
  /\ pc = [t \in Callers |-> "idle"]
  /\ result = [t \in Callers |-> "none"]
  /\ warnings = [t \in Callers |-> 0]
  /\ errors = [t \in Callers |-> 0]
  /\ entered_running = [t \in Callers |-> FALSE]
  /\ calls = 0
  /\ may_raise \in BOOLEAN
  /\ op = [t \in Callers |-> "none"]
  /\ raised_in = [t \in Callers |-> "none"]

InitASR ==
  /\ running = FALSE
  /\ lock = Free
  /\ stream_url \in BOOLEAN
  /\ ws_client = FALSE
  /\ stream_ws_client = FALSE
  /\ audio_stream = FALSE
  /\ audio_callback = "ws"
  /\ stop_reconnect = FALSE
  /\ reconnect_attempts = 0
  /\ reconnect_thread = "none"

\* Values of the url and of the other parameters of configure().
ConfigIds == {0, 1}
\* The arguments of one configure() call: the url, and the rest as one value.
TtsConfigs == [url : ConfigIds, params : ConfigIds]
\* The configuration __init__ is called with.
InitialConfig == [url |-> 0, params |-> 0]

\* AudioOutputStream(url=u, ...): not started, nothing requested.
NewStream(u) == [url |-> u, started |-> FALSE, pending |-> <<>>]

\* A message: the str or the dict a caller passes, or the request dict that
\* create_pending_message builds from a str with voice/model/format `params`.
Message(k, v) == [kind |-> k, params |-> v]
NoMessage == Message("none", 0)

\* The locals of a caller that is in no method of the TTS provider.
NoLocals == [stream |-> 0, was_running |-> FALSE, new_stream |-> 0,
             arg |-> InitialConfig, message |-> NoMessage]

\* ElevenLabsTTSProvider.__init__
InitTTS ==
  /\ tts_running = FALSE
  /\ tts_lock = Free
  /\ tts_audio_stream = 1
  /\ tts_streams = <<NewStream(InitialConfig.url)>>
  /\ tts_params = InitialConfig.params
  /\ tts_local = [t \in Callers |-> NoLocals]

\* TRUE iff self._audio_stream is started.
tts_stream == tts_streams[tts_audio_stream].started

\* data_queue = mp.Queue(maxsize=5)
QueueMaxSize == 5

\* A frame: the Paths message the callback deserialized, with the number of its
\* arrival. `kind` tells what a consumer finds: "list" when .paths is a list.
\* An element of .paths is an int (isint) or something else.
Frame(n, k, p) == [id |-> n, kind |-> k, paths |-> p]
\* `self._valid_paths = []` of __init__, and "no frame" for the locals.
NoFrame == Frame(0, "list", <<>>)
\* An int element of a paths list.
IntPath(v) == [isint |-> TRUE, val |-> v]

InitPaths ==
  /\ data_queue = <<>>
  /\ arrived = 0
  /\ cb_pc = "idle"
  /\ cb_frame = NoFrame
  /\ cb_last = [id |-> 0, inserted |-> TRUE, evicted |-> <<>>]
  /\ d_pc = "poll"
  /\ paths = NoFrame
  /\ d_i = 0
  /\ consumed = <<>>
  /\ first_get = 0 - 1
  /\ turn_left = <<>>
  /\ turn_right = <<>>
  /\ advance = <<>>
  /\ retreat = FALSE
  /\ valid_paths = NoFrame
  /\ lidar_string = ""

\* No call of _attempt_reconnect yet, no message callback registered.
InitReconnect ==
  /\ a_pc = "idle"
  /\ a_attempts = 0
  /\ a_delay = 0
  /\ a_prev = [outcome |-> "none", attempts |-> 0, delay |-> 0]
  /\ attempt_calls = 0
  /\ ws_callbacks = {}
  /\ stream_callbacks = {}
  /\ registered = {}
  /\ connection_lost = FALSE
  /\ terminal_errors = 0

\* Thread control of SimplePathsProvider.__init__: no worker yet.
InitWorkers ==
  /\ sp_pc = "idle"
  /\ sp_stop_event = FALSE
  /\ control_queue = <<>>
  /\ proc = "none"
  /\ derived_thread = "none"

\* No worker process has run, no background plugin has been constructed.
InitMore ==
  /\ subscriber = FALSE
  /\ open_errors = 0
  /\ taken = <<>>
  /\ backgrounds = <<>>
  /\ old_monitors = <<>>
  /\ sp2_pc = "idle"
  /\ orphans = [process |-> 0, derived |-> 0]

Init ==
  /\ InitCallers /\ InitASR /\ InitTTS /\ InitPaths /\ InitReconnect /\ InitWorkers
  /\ InitMore

\* ---- helpers for the caller threads ------------------------------------

\* Caller t moves to position p.
Goto(t, p) == pc' = [pc EXCEPT ![t] = p]

\* Caller t's call returns normally.
Return(t) ==
  /\ pc' = [pc EXCEPT ![t] = "idle"]
  /\ result' = [result EXCEPT ![t] = "ok"]

\* Caller t's call ends with the exception propagated to the caller.
Raise(t) ==
  /\ pc' = [pc EXCEPT ![t] = "idle"]
  /\ result' = [result EXCEPT ![t] = "raised"]

\* Caller t enters method m at position p: the records of its previous call
\* are cleared.
Enter(t, m, p) ==
  /\ pc[t] = "idle"
  /\ calls < MaxCalls
  /\ calls' = calls + 1
  /\ UNCHANGED may_raise
  /\ pc' = [pc EXCEPT ![t] = p]
  /\ op' = [op EXCEPT ![t] = m]
  /\ result' = [result EXCEPT ![t] = "none"]
  /\ warnings' = [warnings EXCEPT ![t] = 0]
  /\ errors' = [errors EXCEPT ![t] = 0]
  /\ entered_running' = [entered_running EXCEPT ![t] = FALSE]
  /\ raised_in' = [raised_in EXCEPT ![t] = "none"]

\* logging.warning / logging.error in t's call.
Warn(t) == warnings' = [warnings EXCEPT ![t] = @ + 1]
LogError(t) == errors' = [errors EXCEPT ![t] = @ + 1]

\* A collaborator call named c raises in t's call; control goes to p.
Fails(t, c, p) ==
  /\ raised_in' = [raised_in EXCEPT ![t] = c]
  /\ pc' = [pc EXCEPT ![t] = p]

\* What a collaborator call can do: TRUE it takes effect, FALSE it raises.
Outcomes == IF may_raise THEN BOOLEAN ELSE {TRUE}

\* threading.Thread.is_alive() of self._reconnect_thread
MonitorAlive == reconnect_thread \in {"loop", "should", "locked", "wait"}

\* ---- ASRProvider.start -------------------------------------------------

\* `with self._lock:` at the head of start().
AsrStartAcquire(t) ==
  /\ lock = Free
  /\ Enter(t, "asr_start", "start_locked")
  /\ lock' = t
  /\ UNCHANGED <<running, stream_url, ws_client, stream_ws_client, audio_stream,
                 audio_callback, stop_reconnect, reconnect_attempts, reconnect_thread>>
  /\ UNCHANGED <<ttsVars, pathVars, extraVars>>

\* AsrStartGuard without the `if self.running:` check: start() always proceeds.
AsrStartGuard_NoCheck(t) ==
  /\ pc[t] = "start_locked"
  /\ lock' = Free
  /\ entered_running' = [entered_running EXCEPT ![t] = running]
  /\ running' = TRUE
  /\ stop_reconnect' = FALSE
  /\ reconnect_attempts' = 0
  /\ Goto(t, "start_ws")
  /\ UNCHANGED <<calls, may_raise, result, warnings, errors, op, raised_in, stream_url,
                 ws_client, stream_ws_client, audio_stream, audio_callback,
                 reconnect_thread, ttsVars, pathVars, extraVars>>

\* The locked block of start(): the already-running check, else the state change.
AsrStartGuard(t) ==
  /\ pc[t] = "start_locked"
  /\ lock' = Free
  /\ entered_running' = [entered_running EXCEPT ![t] = running]
  /\ IF running
       THEN /\ Warn(t)
            /\ Return(t)
            /\ UNCHANGED <<running, stop_reconnect, reconnect_attempts>>
       ELSE /\ running' = TRUE
            /\ stop_reconnect' = FALSE
            /\ reconnect_attempts' = 0
            /\ Goto(t, "start_ws")
            /\ UNCHANGED <<result, warnings>>
  /\ UNCHANGED <<calls, may_raise, errors, op, raised_in, stream_url, ws_client, stream_ws_client,
                 audio_stream, audio_callback, reconnect_thread, ttsVars, pathVars, extraVars>>

\* self.ws_client.start(): the client connects.
AsrStartWs(t) ==
  /\ pc[t] = "start_ws"
  /\ \E ok \in Outcomes :
       IF ok THEN /\ ws_client' = TRUE /\ connection_lost' = FALSE
                  /\ Goto(t, "start_audio") /\ UNCHANGED raised_in
             ELSE /\ UNCHANGED <<ws_client, connection_lost>>
                  /\ Fails(t, "ws_client.start", "start_except")
  /\ UNCHANGED <<calls, may_raise, result, warnings, errors, entered_running, op, running, lock,
                 stream_url, stream_ws_client, audio_stream, audio_callback,
                 stop_reconnect, reconnect_attempts, reconnect_thread, ttsVars, pathVars,
                 attemptVars, terminal_errors, spVars, moreVars>>

\* self.audio_stream.start(), then the test of self.stream_ws_client.
AsrStartAudio(t) ==
  /\ pc[t] = "start_audio"
  /\ \E ok \in Outcomes :
       IF ok THEN /\ audio_stream' = TRUE
                  /\ Goto(t, IF stream_url THEN "start_stream" ELSE "start_monitor")
                  /\ UNCHANGED raised_in
             ELSE UNCHANGED audio_stream /\ Fails(t, "audio_stream.start", "start_except")
  /\ UNCHANGED <<calls, may_raise, result, warnings, errors, entered_running, op, running, lock,
                 stream_url, ws_client, stream_ws_client, audio_callback,
                 stop_reconnect, reconnect_attempts, reconnect_thread, ttsVars, pathVars, extraVars>>

\* self.stream_ws_client.start()
AsrStartStream(t) ==
  /\ pc[t] = "start_stream"
  /\ \E ok \in Outcomes :
       IF ok THEN stream_ws_client' = TRUE /\ Goto(t, "start_register")
                  /\ UNCHANGED raised_in
             ELSE /\ UNCHANGED stream_ws_client
                  /\ Fails(t, "stream_ws_client.start", "start_except")
  /\ UNCHANGED <<calls, may_raise, result, warnings, errors, entered_running, op, running, lock,
                 stream_url, ws_client, audio_stream, audio_callback, stop_reconnect,
                 reconnect_attempts, reconnect_thread, ttsVars, pathVars, extraVars>>

\* audio_stream.register_audio_data_callback(stream_ws_client.send_message) and,
\* for remote input, stream_ws_client.register_message_callback(...).
AsrStartRegister(t) ==
  /\ pc[t] = "start_register"
  /\ \E ok \in Outcomes :
       IF ok THEN audio_callback' = "stream" /\ Goto(t, "start_monitor")
                  /\ UNCHANGED raised_in
             ELSE /\ UNCHANGED audio_callback
                  /\ Fails(t, "register_callback", "start_except")
  /\ UNCHANGED <<calls, may_raise, result, warnings, errors, entered_running, op, running, lock,
                 stream_url, ws_client, stream_ws_client, audio_stream, stop_reconnect,
                 reconnect_attempts, reconnect_thread, ttsVars, pathVars, extraVars>>

\* `if self._reconnect_enabled: self._start_reconnect_monitor()` up to the test
\* `if self._reconnect_thread and self._reconnect_thread.is_alive():` a live
\* monitor thread is kept (one warning) and start() returns, else the caller
\* goes on to create one.
AsrStartMonitor(t) ==
  /\ pc[t] = "start_monitor"
  /\ IF MonitorAlive
       THEN Warn(t) /\ Return(t)
       ELSE Goto(t, "start_thread") /\ UNCHANGED <<warnings, result>>
  /\ UNCHANGED <<calls, may_raise, errors, entered_running, op, raised_in, running, lock,
                 stream_url, ws_client, stream_ws_client, audio_stream, audio_callback,
                 stop_reconnect, reconnect_attempts, reconnect_thread, ttsVars, pathVars,
                 extraVars>>

\* The monitor threads alive after `self._reconnect_thread = threading.Thread(..)`:
\* a thread another caller started since the is_alive() test runs on, and the
\* attribute no longer refers to it.
replaced_monitors ==
  IF MonitorAlive THEN Append(old_monitors, reconnect_thread) ELSE old_monitors

\* The rest of _start_reconnect_monitor(): the new Thread is assigned to
\* self._reconnect_thread and started, and start() returns; Thread.start() may
\* raise, and then the attribute refers to a thread that never ran.
AsrStartThread(t) ==
  /\ pc[t] = "start_thread"
  /\ old_monitors' = replaced_monitors
  /\ lock' = IF lock = Monitor THEN OldMonitor ELSE lock
  /\ \E ok \in Outcomes :
       IF ok
         THEN /\ reconnect_thread' = "loop"
              /\ Return(t) /\ UNCHANGED raised_in
         ELSE /\ reconnect_thread' = IF MonitorAlive THEN "none" ELSE reconnect_thread
              /\ UNCHANGED result
              /\ Fails(t, "reconnect_thread.start", "start_except")
  /\ UNCHANGED <<calls, may_raise, warnings, errors, entered_running, op, running, stream_url,
                 ws_client, stream_ws_client, audio_stream, audio_callback, stop_reconnect,
                 reconnect_attempts, ttsVars, pathVars, attemptVars, monitorVars, spVars,
                 workerVars, hostVars, exceptRace>>

\* `except Exception as e: with self._lock:`
AsrStartExceptAcquire(t) ==
  /\ pc[t] = "start_except"
  /\ lock = Free
  /\ lock' = t
  /\ Goto(t, "start_rollback")
  /\ UNCHANGED <<calls, may_raise, result, warnings, errors, entered_running, op, raised_in, running,
                 stream_url, ws_client, stream_ws_client, audio_stream, audio_callback,
                 stop_reconnect, reconnect_attempts, reconnect_thread, ttsVars, pathVars, extraVars>>

\* AsrStartRollback without `self.running = False`: the error is logged and
\* re-raised, the flag stays as it is.
AsrStartRollback_NoReset(t) ==
  /\ pc[t] = "start_rollback"
  /\ lock' = Free
  /\ LogError(t)
  /\ Raise(t)
  /\ UNCHANGED <<calls, may_raise, warnings, entered_running, op, raised_in, running,
                 stream_url, ws_client, stream_ws_client, audio_stream, audio_callback,
                 stop_reconnect, reconnect_attempts, reconnect_thread, ttsVars, pathVars, extraVars>>

\* `self.running = False`, the error log and `raise`.
AsrStartRollback(t) ==
  /\ pc[t] = "start_rollback"
  /\ running' = FALSE
  /\ lock' = Free
  /\ LogError(t)
  /\ Raise(t)
  /\ UNCHANGED <<calls, may_raise, warnings, entered_running, op, raised_in, stream_url, ws_client,
                 stream_ws_client, audio_stream, audio_callback, stop_reconnect,
                 reconnect_attempts, reconnect_thread, ttsVars, pathVars, extraVars>>

\* ---- ASRProvider.stop --------------------------------------------------

\* `with self._lock:` at the head of stop().
AsrStopAcquire(t) ==
  /\ lock = Free
  /\ Enter(t, "asr_stop", "stop_locked")
  /\ lock' = t
  /\ UNCHANGED <<running, stream_url, ws_client, stream_ws_client, audio_stream,
                 audio_callback, stop_reconnect, reconnect_attempts, reconnect_thread>>
  /\ UNCHANGED <<ttsVars, pathVars, extraVars>>

\* AsrStopGuard without the `if not self.running:` check: stop() always proceeds.
AsrStopGuard_NoCheck(t) ==
  /\ pc[t] = "stop_locked"
  /\ lock' = Free
  /\ entered_running' = [entered_running EXCEPT ![t] = running]
  /\ running' = FALSE
  /\ stop_reconnect' = TRUE
  /\ Goto(t, "stop_monitor")
  /\ UNCHANGED <<calls, may_raise, result, warnings, errors, op, raised_in, stream_url,
                 ws_client, stream_ws_client, audio_stream, audio_callback,
                 reconnect_attempts, reconnect_thread, ttsVars, pathVars, extraVars>>

\* AsrStopGuard with the teardown inside the `with` block: the lock is still
\* held when stop() goes on to join the monitor thread.
AsrStopGuard_HoldsLock(t) ==
  /\ pc[t] = "stop_locked"
  /\ lock' = IF ~running THEN Free ELSE t
  /\ entered_running' = [entered_running EXCEPT ![t] = running]
  /\ IF ~running
       THEN /\ Warn(t)
            /\ Return(t)
            /\ UNCHANGED <<running, stop_reconnect>>
       ELSE /\ running' = FALSE
            /\ stop_reconnect' = TRUE
            /\ Goto(t, "stop_monitor")
            /\ UNCHANGED <<result, warnings>>
  /\ UNCHANGED <<calls, may_raise, errors, op, raised_in, stream_url, ws_client, stream_ws_client,
                 audio_stream, audio_callback, reconnect_attempts, reconnect_thread,
                 ttsVars, pathVars, extraVars>>

\* The locked block of stop(): the not-running check, else the state change.
AsrStopGuard(t) ==
  /\ pc[t] = "stop_locked"
  /\ lock' = Free
  /\ entered_running' = [entered_running EXCEPT ![t] = running]
  /\ IF ~running
       THEN /\ Warn(t)
            /\ Return(t)
            /\ UNCHANGED <<running, stop_reconnect>>
       ELSE /\ running' = FALSE
            /\ stop_reconnect' = TRUE
            /\ Goto(t, "stop_monitor")
            /\ UNCHANGED <<result, warnings>>
  /\ UNCHANGED <<calls, may_raise, errors, op, raised_in, stream_url, ws_client, stream_ws_client,
                 audio_stream, audio_callback, reconnect_attempts, reconnect_thread,
                 ttsVars, pathVars, extraVars>>

\* `if self._reconnect_thread and self._reconnect_thread.is_alive():` and the
\* `self._stop_reconnect.set()` under it.
AsrStopMonitor(t) ==
  /\ pc[t] = "stop_monitor"
  /\ IF MonitorAlive
       THEN stop_reconnect' = TRUE /\ Goto(t, "stop_join")
       ELSE UNCHANGED stop_reconnect /\ Goto(t, "stop_audio")
  /\ UNCHANGED <<calls, may_raise, result, warnings, errors, entered_running, op, raised_in, running,
                 lock, stream_url, ws_client, stream_ws_client, audio_stream,
                 audio_callback, reconnect_attempts, reconnect_thread, ttsVars, pathVars, extraVars>>

\* `self._reconnect_thread.join(timeout=2.0)`: it returns when the thread has
\* ended, or after the timeout with the thread alive (one warning).
AsrStopJoin(t) ==
  /\ pc[t] = "stop_join"
  /\ IF MonitorAlive THEN Warn(t) ELSE UNCHANGED warnings
  /\ Goto(t, "stop_audio")
  /\ UNCHANGED <<calls, may_raise, result, errors, entered_running, op, raised_in, asrVars, ttsVars, pathVars, extraVars>>

\* The `except Exception` of stop(): the error is logged and stop() returns.
StopExcept(t, c) ==
  /\ raised_in' = [raised_in EXCEPT ![t] = c]
  /\ LogError(t)
  /\ Return(t)

\* self.audio_stream.stop()
AsrStopAudio(t) ==
  /\ pc[t] = "stop_audio"
  /\ \E ok \in Outcomes :
       IF ok THEN /\ audio_stream' = FALSE
                  /\ Goto(t, "stop_ws")
                  /\ UNCHANGED <<raised_in, errors, result>>
             ELSE UNCHANGED audio_stream /\ StopExcept(t, "audio_stream.stop")
  /\ UNCHANGED <<calls, may_raise, warnings, entered_running, op, running, lock, stream_url, ws_client,
                 stream_ws_client, audio_callback, stop_reconnect, reconnect_attempts,
                 reconnect_thread, ttsVars, pathVars, extraVars>>

\* self.ws_client.stop(), then the test of self.stream_ws_client.
AsrStopWs(t) ==
  /\ pc[t] = "stop_ws"
  /\ \E ok \in Outcomes :
       IF ok THEN /\ ws_client' = FALSE
                  /\ UNCHANGED <<raised_in, errors>>
                  /\ IF stream_url THEN Goto(t, "stop_stream") /\ UNCHANGED result
                                   ELSE Return(t)
             ELSE UNCHANGED ws_client /\ StopExcept(t, "ws_client.stop")
  /\ UNCHANGED <<calls, may_raise, warnings, entered_running, op, running, lock, stream_url,
                 stream_ws_client, audio_stream, audio_callback, stop_reconnect,
                 reconnect_attempts, reconnect_thread, ttsVars, pathVars, extraVars>>

\* self.stream_ws_client.stop()
AsrStopStream(t) ==
  /\ pc[t] = "stop_stream"
  /\ \E ok \in Outcomes :
       IF ok THEN /\ stream_ws_client' = FALSE
                  /\ UNCHANGED <<raised_in, errors>>
                  /\ Return(t)
             ELSE UNCHANGED stream_ws_client /\ StopExcept(t, "stream_ws_client.stop")
  /\ UNCHANGED <<calls, may_raise, warnings, entered_running, op, running, lock, stream_url, ws_client,
                 audio_stream, audio_callback, stop_reconnect, reconnect_attempts,
                 reconnect_thread, ttsVars, pathVars, extraVars>>

\* ---- ASRProvider._reconnect_monitor_loop -------------------------------

\* `while not self._stop_reconnect.is_set():`
MonitorLoop ==
  /\ reconnect_thread = "loop"
  /\ reconnect_thread' = IF stop_reconnect THEN "exited" ELSE "should"
  /\ UNCHANGED <<callerVars, running, lock, stream_url, ws_client, stream_ws_client,
                 audio_stream, audio_callback, stop_reconnect, reconnect_attempts,
                 ttsVars, pathVars, extraVars>>

\* `with self._lock:` of _should_reconnect().
MonitorShouldAcquire ==
  /\ reconnect_thread = "should"
  /\ lock = Free
  /\ lock' = Monitor
  /\ reconnect_thread' = "locked"
  /\ UNCHANGED <<callerVars, running, stream_url, ws_client, stream_ws_client,
                 audio_stream, audio_callback, stop_reconnect, reconnect_attempts,
                 ttsVars, pathVars, extraVars>>

\* The budget test with the wrong result: True once the attempts are used up.
should_reconnect_BudgetInverted ==
  IF ~running THEN FALSE
  ELSE IF reconnect_attempts >= MaxReconnectAttempts THEN TRUE
  ELSE FALSE

\* _should_reconnect(): False when not running, False when the attempts are
\* used up, and False from the connection check, whose body is `return False`.
should_reconnect ==
  IF ~running THEN FALSE
  ELSE IF reconnect_attempts >= MaxReconnectAttempts THEN FALSE
  ELSE FALSE

\* Terminal errors counted: the count stops at MaxLogged.
MaxLogged == 2

\* The locked block of _should_reconnect() with its error log, and its result;
\* _attempt_reconnect() is called only on True, then the loop waits.
MonitorShould ==
  /\ reconnect_thread = "locked"
  /\ lock' = Free
  /\ terminal_errors' =
       IF running /\ reconnect_attempts >= MaxReconnectAttempts /\ terminal_errors < MaxLogged
         THEN terminal_errors + 1 ELSE terminal_errors
  /\ reconnect_thread' = IF should_reconnect THEN "attempt" ELSE "wait"
  /\ UNCHANGED <<callerVars, running, stream_url, ws_client, stream_ws_client,
                 audio_stream, audio_callback, stop_reconnect, reconnect_attempts,
                 ttsVars, pathVars, attemptVars, connection_lost, spVars, moreVars>>

\* `if self._stop_reconnect.wait(timeout=check_interval): break`
MonitorWait ==
  /\ reconnect_thread = "wait"
  /\ reconnect_thread' = IF stop_reconnect THEN "exited" ELSE "loop"
  /\ UNCHANGED <<callerVars, running, lock, stream_url, ws_client, stream_ws_client,
                 audio_stream, audio_callback, stop_reconnect, reconnect_attempts,
                 ttsVars, pathVars, extraVars>>

\* A step of a replaced monitor thread i in the same loop: the loop test, the
\* locked block of _should_reconnect() and the wait; a thread that finds the
\* event set ends.
OldMonitorStep(i) ==
  LET at == old_monitors[i]
      exits == at \in {"loop", "wait"} /\ stop_reconnect
      to == CASE at = "loop" -> "should"
              [] at = "should" -> "locked"
              [] at = "locked" -> "wait"
              [] OTHER -> "loop"
  IN /\ at = "should" => lock = Free
     /\ lock' = CASE at = "should" -> OldMonitor
                  [] at = "locked" -> Free
                  [] OTHER -> lock
     /\ terminal_errors' =
          IF at = "locked" /\ running /\ reconnect_attempts >= MaxReconnectAttempts
                           /\ terminal_errors < MaxLogged
            THEN terminal_errors + 1 ELSE terminal_errors
     /\ old_monitors' =
          IF exits
            THEN SubSeq(old_monitors, 1, i - 1) \o SubSeq(old_monitors, i + 1, Len(old_monitors))
            ELSE [old_monitors EXCEPT ![i] = to]
     /\ UNCHANGED <<callerVars, running, stream_url, ws_client, stream_ws_client,
                    audio_stream, audio_callback, stop_reconnect, reconnect_attempts,
                    reconnect_thread, ttsVars, pathVars, attemptVars, connection_lost,
                    spVars, workerVars, hostVars, exceptRace>>

\* The replaced monitor threads that are alive.
OldMonitors == \E i \in 1..Len(old_monitors) : OldMonitorStep(i)

\* ---- ASRProvider._attempt_reconnect ---------------------------------------

\* self._base_reconnect_delay and self._max_reconnect_delay, in seconds.
BaseReconnectDelay == 1
MaxReconnectDelay == 60

\* Holder of ASRProvider._lock when the thread inside _attempt_reconnect has it.
Attempter == NumCallers + 2

\* What no step of _attempt_reconnect changes.
attemptFrame == <<callerVars, running, stream_url, audio_stream, stop_reconnect,
                  reconnect_thread, ttsVars, pathVars, registered, terminal_errors, spVars,
                  moreVars>>

\* The delay without the cap of min().
ReconnectDelay_NoCap(k) == BaseReconnectDelay * (2 ^ k)

\* min(self._base_reconnect_delay * (2 ** self._reconnect_attempts),
\*     self._max_reconnect_delay)
ReconnectDelay(k) ==
  IF BaseReconnectDelay * (2 ^ k) < MaxReconnectDelay
    THEN BaseReconnectDelay * (2 ^ k)
    ELSE MaxReconnectDelay

\* The call returns: its locals are gone, how it ended is kept.
AttemptEnds(how) ==
  /\ a_pc' = "idle"
  /\ a_prev' = [outcome |-> how, attempts |-> a_attempts, delay |-> a_delay]
  /\ a_attempts' = 0
  /\ a_delay' = 0

\* _attempt_reconnect() is called from position p; `with self._lock:` at its head.
AttemptAcquireFrom(p) ==
  /\ a_pc = p
  /\ lock = Free
  /\ lock' = Attempter
  /\ attempt_calls' = attempt_calls + 1
  /\ a_pc' = "locked"
  /\ UNCHANGED <<a_attempts, a_delay, a_prev, ws_client, stream_ws_client, audio_callback,
                 reconnect_attempts, ws_callbacks, stream_callbacks, connection_lost,
                 attemptFrame>>

\* _attempt_reconnect() is called by a thread that is in no call of it.
AttemptAcquire == AttemptAcquireFrom("idle")

\* The first locked block: return when not running, else compute `delay` and
\* `attempts`.
AttemptCompute ==
  /\ a_pc = "locked"
  /\ lock' = Free
  /\ IF ~running
       THEN AttemptEnds("abandoned")
       ELSE /\ a_delay' = ReconnectDelay(reconnect_attempts)
            /\ a_attempts' = reconnect_attempts + 1
            /\ a_pc' = "stop_ws"
            /\ UNCHANGED a_prev
  /\ UNCHANGED <<attempt_calls, ws_client, stream_ws_client, audio_callback,
                 reconnect_attempts, ws_callbacks, stream_callbacks, connection_lost,
                 attemptFrame>>

\* `self.ws_client.stop()` of the inner try; what it raises is logged as a
\* warning and the stream client is not stopped.
AttemptStopWs ==
  /\ a_pc = "stop_ws"
  /\ \E ok \in Outcomes :
       IF ok THEN /\ ws_client' = FALSE
                  /\ a_pc' = IF stream_url THEN "stop_stream" ELSE "sleep"
             ELSE /\ UNCHANGED ws_client
                  /\ a_pc' = "sleep"
  /\ UNCHANGED <<lock, a_attempts, a_delay, a_prev, attempt_calls, stream_ws_client,
                 audio_callback, reconnect_attempts, ws_callbacks, stream_callbacks,
                 connection_lost, attemptFrame>>

\* `self.stream_ws_client.stop()` of the inner try.
AttemptStopStream ==
  /\ a_pc = "stop_stream"
  /\ \E ok \in Outcomes :
       IF ok THEN stream_ws_client' = FALSE ELSE UNCHANGED stream_ws_client
  /\ a_pc' = "sleep"
  /\ UNCHANGED <<lock, a_attempts, a_delay, a_prev, attempt_calls, ws_client,
                 audio_callback, reconnect_attempts, ws_callbacks, stream_callbacks,
                 connection_lost, attemptFrame>>

\* `time.sleep(delay)` has ended; `with self._lock:` of the second block.
AttemptSleep ==
  /\ a_pc = "sleep"
  /\ lock = Free
  /\ lock' = Attempter
  /\ a_pc' = "recreate"
  /\ UNCHANGED <<a_attempts, a_delay, a_prev, attempt_calls, ws_client, stream_ws_client,
                 audio_callback, reconnect_attempts, ws_callbacks, stream_callbacks,
                 connection_lost, attemptFrame>>

\* The second locked block: return when not running, else new ws.Client
\* objects (not started, no message callback) and the audio data callback set
\* to the new ws_client. ws.Client() may raise before anything is assigned,
\* register_audio_data_callback after the clients are.
AttemptRecreate ==
  /\ a_pc = "recreate"
  /\ lock' = Free
  /\ IF ~running
       THEN /\ AttemptEnds("abandoned")
            /\ UNCHANGED <<ws_client, stream_ws_client, audio_callback, ws_callbacks,
                           stream_callbacks, connection_lost>>
       ELSE /\ UNCHANGED <<a_attempts, a_delay, a_prev>>
            /\ \E made \in Outcomes, wired \in Outcomes :
                 /\ IF made
                      THEN /\ ws_client' = FALSE
                           /\ ws_callbacks' = {}
                           /\ connection_lost' = FALSE
                           /\ stream_ws_client' = IF stream_url THEN FALSE ELSE stream_ws_client
                           /\ stream_callbacks' = IF stream_url THEN {} ELSE stream_callbacks
                      ELSE UNCHANGED <<ws_client, ws_callbacks, connection_lost,
                                       stream_ws_client, stream_callbacks>>
                 /\ audio_callback' = IF made /\ wired THEN "ws" ELSE audio_callback
                 /\ a_pc' = IF made /\ wired THEN "start_ws" ELSE "fail"
  /\ UNCHANGED <<attempt_calls, reconnect_attempts, attemptFrame>>

\* `self.ws_client.start()`, then the test of self.stream_ws_client.
AttemptStartWs ==
  /\ a_pc = "start_ws"
  /\ \E ok \in Outcomes :
       IF ok THEN /\ ws_client' = TRUE
                  /\ a_pc' = IF stream_url THEN "start_stream" ELSE "success"
             ELSE /\ UNCHANGED ws_client
                  /\ a_pc' = "fail"
  /\ UNCHANGED <<lock, a_attempts, a_delay, a_prev, attempt_calls, stream_ws_client,
                 audio_callback, reconnect_attempts, ws_callbacks, stream_callbacks,
                 connection_lost, attemptFrame>>

\* `self.stream_ws_client.start()` and, for remote input, its message callback.
AttemptStartStream ==
  /\ a_pc = "start_stream"
  /\ \E ok \in Outcomes :
       IF ok THEN stream_ws_client' = TRUE /\ a_pc' = "success"
             ELSE UNCHANGED stream_ws_client /\ a_pc' = "fail"
  /\ UNCHANGED <<lock, a_attempts, a_delay, a_prev, attempt_calls, ws_client,
                 audio_callback, reconnect_attempts, ws_callbacks, stream_callbacks,
                 connection_lost, attemptFrame>>

\* `with self._lock: self._reconnect_attempts = 0`: the lock is taken, the
\* counter reset and the lock released.
AttemptSuccess ==
  /\ a_pc = "success"
  /\ lock = Free
  /\ reconnect_attempts' = 0
  /\ AttemptEnds("succeeded")
  /\ UNCHANGED <<lock, attempt_calls, ws_client, stream_ws_client, audio_callback,
                 ws_callbacks, stream_callbacks, connection_lost, attemptFrame>>

\* AttemptFail that gives the provider up once the attempts are used up:
\* running is set to False with the counter.
AttemptFail_GivesUp ==
  /\ a_pc = "fail"
  /\ lock = Free
  /\ reconnect_attempts' = a_attempts
  /\ running' = IF a_attempts >= MaxReconnectAttempts THEN FALSE ELSE running
  /\ AttemptEnds("failed")
  /\ UNCHANGED <<lock, attempt_calls, ws_client, stream_ws_client, audio_callback,
                 ws_callbacks, stream_callbacks, connection_lost, callerVars, stream_url,
                 audio_stream, stop_reconnect, reconnect_thread, ttsVars, pathVars,
                 registered, terminal_errors, spVars, moreVars>>

\* `except Exception: with self._lock: self._reconnect_attempts = attempts`
\* and the error log.
AttemptFail ==
  /\ a_pc = "fail"
  /\ lock = Free
  /\ reconnect_attempts' = a_attempts
  /\ AttemptEnds("failed")
  /\ UNCHANGED <<lock, attempt_calls, ws_client, stream_ws_client, audio_callback,
                 ws_callbacks, stream_callbacks, connection_lost, attemptFrame>>

\* The steps of a call of _attempt_reconnect that has begun.
AttemptSteps ==
  \/ AttemptCompute \/ AttemptStopWs \/ AttemptStopStream
  \/ AttemptSleep \/ AttemptRecreate \/ AttemptStartWs \/ AttemptStartStream
  \/ AttemptSuccess \/ AttemptFail

\* ---- ASRProvider.register_message_callback --------------------------------

\* The callbacks a consumer registers for ASR results.
MessageCallbacks == {"on_asr_result"}

\* `with self._lock:` at the head of register_message_callback(cb); cb is a
\* callback or None.
RegisterAcquire(t) ==
  /\ lock = Free
  /\ \E given \in BOOLEAN : Enter(t, "asr_register", IF given THEN "reg_locked" ELSE "reg_none")
  /\ lock' = t
  /\ UNCHANGED <<running, stream_url, ws_client, stream_ws_client, audio_stream,
                 audio_callback, stop_reconnect, reconnect_attempts, reconnect_thread>>
  /\ UNCHANGED <<ttsVars, pathVars, extraVars>>

\* The locked block for a callback: it is registered on ws_client and, when
\* there is one, on stream_ws_client; what a registration raises propagates.
RegisterCallback(t) ==
  /\ pc[t] = "reg_locked"
  /\ lock' = Free
  /\ \E cb \in MessageCallbacks, ok \in Outcomes :
       /\ IF ok
            THEN /\ registered' = registered \cup {cb}
                 /\ ws_callbacks' = ws_callbacks \cup {cb}
                 /\ stream_callbacks' =
                      IF stream_url THEN stream_callbacks \cup {cb} ELSE stream_callbacks
                 /\ Return(t)
                 /\ UNCHANGED raised_in
            ELSE /\ UNCHANGED <<registered, ws_callbacks, stream_callbacks>>
                 /\ raised_in' = [raised_in EXCEPT ![t] = "register_message_callback"]
                 /\ Raise(t)
  /\ UNCHANGED <<calls, may_raise, warnings, errors, entered_running, op, running, stream_url,
                 ws_client, stream_ws_client, audio_stream, audio_callback, stop_reconnect,
                 reconnect_attempts, reconnect_thread, ttsVars, pathVars, a_pc, a_attempts,
                 a_delay, a_prev, attempt_calls, monitorVars, spVars, moreVars>>

\* The locked block for None: nothing is registered.
RegisterNone(t) ==
  /\ pc[t] = "reg_none"
  /\ lock' = Free
  /\ Return(t)
  /\ UNCHANGED <<calls, may_raise, warnings, errors, entered_running, op, raised_in, running,
                 stream_url, ws_client, stream_ws_client, audio_stream, audio_callback,
                 stop_reconnect, reconnect_attempts, reconnect_thread, ttsVars, pathVars,
                 extraVars>>

Register(t) == RegisterAcquire(t) \/ RegisterCallback(t) \/ RegisterNone(t)

\* ---- ElevenLabsTTSProvider.start / stop --------------------------------

\* What no method of the TTS provider changes.
ttsRest == <<asrVars, pathVars, extraVars>>

\* `stream = self._audio_stream` in t's call.
Capture(t) == tts_local' = [tts_local EXCEPT ![t].stream = tts_audio_stream]

\* t's call of a TTS method ends: its locals are gone.
Forget(t) == tts_local' = [tts_local EXCEPT ![t] = NoLocals]

\* start() / stop() of stream object i takes effect.
SetStarted(i, b) == tts_streams' = [tts_streams EXCEPT ![i].started = b]

\* `with self._lock:` at the head of start().
TtsStartAcquire(t) ==
  /\ tts_lock = Free
  /\ Enter(t, "tts_start", "tts_start_locked")
  /\ tts_lock' = t
  /\ UNCHANGED <<tts_running, ttsObjVars, ttsRest>>

\* TtsStartGuard with `stream.start()` inside the `with` block: the lock is
\* still held when the stream is started.
TtsStartGuard_HoldsLock(t) ==
  /\ pc[t] = "tts_start_locked"
  /\ tts_lock' = IF tts_running THEN Free ELSE t
  /\ entered_running' = [entered_running EXCEPT ![t] = tts_running]
  /\ IF tts_running
       THEN Warn(t) /\ Return(t) /\ UNCHANGED <<tts_running, tts_local>>
       ELSE tts_running' = TRUE /\ Capture(t) /\ Goto(t, "tts_start_stream")
            /\ UNCHANGED <<result, warnings>>
  /\ UNCHANGED <<calls, may_raise, errors, op, raised_in, tts_audio_stream, tts_streams,
                 tts_params, ttsRest>>

\* The locked block of start(): the already-running check, else running = True
\* and `stream = self._audio_stream`.
TtsStartGuard(t) ==
  /\ pc[t] = "tts_start_locked"
  /\ tts_lock' = Free
  /\ entered_running' = [entered_running EXCEPT ![t] = tts_running]
  /\ IF tts_running
       THEN Warn(t) /\ Return(t) /\ UNCHANGED <<tts_running, tts_local>>
       ELSE tts_running' = TRUE /\ Capture(t) /\ Goto(t, "tts_start_stream")
            /\ UNCHANGED <<result, warnings>>
  /\ UNCHANGED <<calls, may_raise, errors, op, raised_in, tts_audio_stream, tts_streams,
                 tts_params, ttsRest>>

\* `stream.start()` after the lock is released; nothing catches what it raises.
TtsStartStream(t) ==
  /\ pc[t] = "tts_start_stream"
  /\ \E ok \in Outcomes :
       IF ok THEN SetStarted(tts_local[t].stream, TRUE) /\ Return(t) /\ UNCHANGED raised_in
             ELSE /\ UNCHANGED tts_streams
                  /\ raised_in' = [raised_in EXCEPT ![t] = "stream.start"]
                  /\ Raise(t)
  /\ Forget(t)
  /\ UNCHANGED <<calls, may_raise, warnings, errors, entered_running, op, tts_running, tts_lock,
                 tts_audio_stream, tts_params, ttsRest>>

\* `with self._lock:` at the head of stop().
TtsStopAcquire(t) ==
  /\ tts_lock = Free
  /\ Enter(t, "tts_stop", "tts_stop_locked")
  /\ tts_lock' = t
  /\ UNCHANGED <<tts_running, ttsObjVars, ttsRest>>

\* The locked block of stop(): the not-running check, else running = False and
\* `stream = self._audio_stream`.
TtsStopGuard(t) ==
  /\ pc[t] = "tts_stop_locked"
  /\ tts_lock' = Free
  /\ entered_running' = [entered_running EXCEPT ![t] = tts_running]
  /\ IF ~tts_running
       THEN Warn(t) /\ Return(t) /\ UNCHANGED <<tts_running, tts_local>>
       ELSE tts_running' = FALSE /\ Capture(t) /\ Goto(t, "tts_stop_stream")
            /\ UNCHANGED <<result, warnings>>
  /\ UNCHANGED <<calls, may_raise, errors, op, raised_in, tts_audio_stream, tts_streams,
                 tts_params, ttsRest>>

\* `stream.stop()` after the lock is released; nothing catches what it raises.
TtsStopStream(t) ==
  /\ pc[t] = "tts_stop_stream"
  /\ \E ok \in Outcomes :
       IF ok THEN SetStarted(tts_local[t].stream, FALSE) /\ Return(t) /\ UNCHANGED raised_in
             ELSE /\ UNCHANGED tts_streams
                  /\ raised_in' = [raised_in EXCEPT ![t] = "stream.stop"]
                  /\ Raise(t)
  /\ Forget(t)
  /\ UNCHANGED <<calls, may_raise, warnings, errors, entered_running, op, tts_running, tts_lock,
                 tts_audio_stream, tts_params, ttsRest>>

\* ---- ElevenLabsTTSProvider.configure ---------------------------------------

\* `with self._lock:` at the head of configure(); the arguments are any
\* configuration.
TtsConfigureAcquire(t) ==
  /\ tts_lock = Free
  /\ Enter(t, "tts_configure", "tts_cfg_locked")
  /\ tts_lock' = t
  /\ \E c \in TtsConfigs : tts_local' = [tts_local EXCEPT ![t].arg = c]
  /\ UNCHANGED <<tts_running, tts_audio_stream, tts_streams, tts_params, ttsRest>>

\* restart_needed: the url differs from the url of the current stream object,
\* or another argument differs from the attribute that holds it.
restart_needed(c) ==
  \/ c.url # tts_streams[tts_audio_stream].url
  \/ c.params # tts_params

\* The locked block of configure(): return when nothing differs, else remember
\* `was_running`, assign the attributes and construct `new_stream`; what the
\* constructor raises propagates.
TtsConfigureLocked(t) ==
  /\ pc[t] = "tts_cfg_locked"
  /\ tts_lock' = Free
  /\ IF ~restart_needed(tts_local[t].arg)
       THEN /\ Return(t) /\ Forget(t)
            /\ UNCHANGED <<tts_params, tts_streams, raised_in>>
       ELSE /\ tts_params' = tts_local[t].arg.params
            /\ \E ok \in Outcomes :
                 IF ok
                   THEN /\ tts_streams' = Append(tts_streams, NewStream(tts_local[t].arg.url))
                        /\ tts_local' = [tts_local EXCEPT ![t].was_running = tts_running,
                                                          ![t].new_stream = Len(tts_streams) + 1]
                        /\ Goto(t, IF tts_running THEN "tts_cfg_stop" ELSE "tts_cfg_swap")
                        /\ UNCHANGED <<result, raised_in>>
                   ELSE /\ UNCHANGED tts_streams
                        /\ raised_in' = [raised_in EXCEPT ![t] = "AudioOutputStream"]
                        /\ Raise(t) /\ Forget(t)
  /\ UNCHANGED <<calls, may_raise, warnings, errors, entered_running, op, tts_running,
                 tts_audio_stream, ttsRest>>

\* `if was_running: self.stop()`: the `with self._lock:` of that stop().
TtsConfigureStopAcquire(t) ==
  /\ pc[t] = "tts_cfg_stop"
  /\ tts_lock = Free
  /\ tts_lock' = t
  /\ Goto(t, "tts_cfg_stop_locked")
  /\ UNCHANGED <<calls, may_raise, result, warnings, errors, entered_running, op, raised_in,
                 tts_running, ttsObjVars, ttsRest>>

\* The locked block of the stop() configure() calls.
TtsConfigureStopGuard(t) ==
  /\ pc[t] = "tts_cfg_stop_locked"
  /\ tts_lock' = Free
  /\ IF ~tts_running
       THEN Warn(t) /\ Goto(t, "tts_cfg_swap") /\ UNCHANGED <<tts_running, tts_local>>
       ELSE tts_running' = FALSE /\ Capture(t) /\ Goto(t, "tts_cfg_stop_stream")
            /\ UNCHANGED warnings
  /\ UNCHANGED <<calls, may_raise, result, errors, entered_running, op, raised_in,
                 tts_audio_stream, tts_streams, tts_params, ttsRest>>

\* `stream.stop()` of the stop() configure() calls; what it raises ends
\* configure().
TtsConfigureStopStream(t) ==
  /\ pc[t] = "tts_cfg_stop_stream"
  /\ \E ok \in Outcomes :
       IF ok THEN /\ SetStarted(tts_local[t].stream, FALSE)
                  /\ Goto(t, "tts_cfg_swap")
                  /\ UNCHANGED <<result, raised_in, tts_local>>
             ELSE /\ UNCHANGED tts_streams
                  /\ raised_in' = [raised_in EXCEPT ![t] = "stream.stop"]
                  /\ Raise(t) /\ Forget(t)
  /\ UNCHANGED <<calls, may_raise, warnings, errors, entered_running, op, tts_running, tts_lock,
                 tts_audio_stream, tts_params, ttsRest>>

\* TtsConfigureSwap that forgets `if was_running: self.start()`: configure()
\* returns after the assignment.
TtsConfigureSwap_NoRestart(t) ==
  /\ pc[t] = "tts_cfg_swap"
  /\ tts_lock = Free
  /\ tts_audio_stream' = tts_local[t].new_stream
  /\ Return(t) /\ Forget(t)
  /\ UNCHANGED <<calls, may_raise, warnings, errors, entered_running, op, raised_in,
                 tts_running, tts_lock, tts_streams, tts_params, ttsRest>>

\* `with self._lock: self._audio_stream = new_stream`: the lock is taken, the
\* attribute assigned and the lock released; then the test of was_running.
TtsConfigureSwap(t) ==
  /\ pc[t] = "tts_cfg_swap"
  /\ tts_lock = Free
  /\ tts_audio_stream' = tts_local[t].new_stream
  /\ IF tts_local[t].was_running
       THEN Goto(t, "tts_cfg_start") /\ UNCHANGED <<result, tts_local>>
       ELSE Return(t) /\ Forget(t)
  /\ UNCHANGED <<calls, may_raise, warnings, errors, entered_running, op, raised_in,
                 tts_running, tts_lock, tts_streams, tts_params, ttsRest>>

\* `if was_running: self.start()`: the `with self._lock:` of that start().
TtsConfigureStartAcquire(t) ==
  /\ pc[t] = "tts_cfg_start"
  /\ tts_lock = Free
  /\ tts_lock' = t
  /\ Goto(t, "tts_cfg_start_locked")
  /\ UNCHANGED <<calls, may_raise, result, warnings, errors, entered_running, op, raised_in,
                 tts_running, ttsObjVars, ttsRest>>

\* The locked block of the start() configure() calls.
TtsConfigureStartGuard(t) ==
  /\ pc[t] = "tts_cfg_start_locked"
  /\ tts_lock' = Free
  /\ IF tts_running
       THEN Warn(t) /\ Return(t) /\ Forget(t) /\ UNCHANGED tts_running
       ELSE tts_running' = TRUE /\ Capture(t) /\ Goto(t, "tts_cfg_start_stream")
            /\ UNCHANGED <<result, warnings>>
  /\ UNCHANGED <<calls, may_raise, errors, entered_running, op, raised_in,
                 tts_audio_stream, tts_streams, tts_params, ttsRest>>

\* `stream.start()` of the start() configure() calls, and the return of
\* configure().
TtsConfigureStartStream(t) ==
  /\ pc[t] = "tts_cfg_start_stream"
  /\ \E ok \in Outcomes :
       IF ok THEN SetStarted(tts_local[t].stream, TRUE) /\ Return(t) /\ UNCHANGED raised_in
             ELSE /\ UNCHANGED tts_streams
                  /\ raised_in' = [raised_in EXCEPT ![t] = "stream.start"]
                  /\ Raise(t)
  /\ Forget(t)
  /\ UNCHANGED <<calls, may_raise, warnings, errors, entered_running, op, tts_running, tts_lock,
                 tts_audio_stream, tts_params, ttsRest>>

TtsConfigure(t) ==
  \/ TtsConfigureAcquire(t) \/ TtsConfigureLocked(t)
  \/ TtsConfigureStopAcquire(t) \/ TtsConfigureStopGuard(t) \/ TtsConfigureStopStream(t)
  \/ TtsConfigureSwap(t)
  \/ TtsConfigureStartAcquire(t) \/ TtsConfigureStartGuard(t) \/ TtsConfigureStartStream(t)

\* ---- ElevenLabsTTSProvider.add_pending_message -----------------------------

\* What a caller passes: a str or a dict.
GivenMessages == {Message("str", 0), Message("dict", 0)}

\* `with self._lock:` at the head of add_pending_message(message).
TtsAddAcquire(t) ==
  /\ tts_lock = Free
  /\ Enter(t, "tts_add", "tts_add_locked")
  /\ tts_lock' = t
  /\ \E m \in GivenMessages : tts_local' = [tts_local EXCEPT ![t].message = m]
  /\ UNCHANGED <<tts_running, tts_audio_stream, tts_streams, tts_params, ttsRest>>

\* TtsAddRead without `if not running:`: the message is enqueued whether the
\* provider runs or not.
TtsAddRead_NoCheck(t) ==
  /\ pc[t] = "tts_add_locked"
  /\ tts_lock' = Free
  /\ entered_running' = [entered_running EXCEPT ![t] = tts_running]
  /\ Capture(t)
  /\ Goto(t, IF tts_local[t].message.kind = "str" THEN "tts_add_create"
                                                 ELSE "tts_add_request")
  /\ UNCHANGED <<calls, may_raise, result, warnings, errors, op, raised_in, tts_running,
                 tts_audio_stream, tts_streams, tts_params, ttsRest>>

\* The locked block `running = self.running; stream = self._audio_stream` and
\* the test after it: not running, one warning and the return.
TtsAddRead(t) ==
  /\ pc[t] = "tts_add_locked"
  /\ tts_lock' = Free
  /\ entered_running' = [entered_running EXCEPT ![t] = tts_running]
  /\ IF ~tts_running
       THEN Warn(t) /\ Return(t) /\ Forget(t)
       ELSE /\ Capture(t)
            /\ Goto(t, IF tts_local[t].message.kind = "str" THEN "tts_add_create"
                                                           ELSE "tts_add_request")
            /\ UNCHANGED <<result, warnings>>
  /\ UNCHANGED <<calls, may_raise, errors, op, raised_in, tts_running,
                 tts_audio_stream, tts_streams, tts_params, ttsRest>>

\* create_pending_message(text): the lock is taken, voice_id, model_id and
\* output_format are read and the lock is released; the request dict is built.
create_pending_message == Message("request", tts_params)

\* `if isinstance(message, str): message = self.create_pending_message(message)`
TtsAddCreate(t) ==
  /\ pc[t] = "tts_add_create"
  /\ tts_lock = Free
  /\ tts_local' = [tts_local EXCEPT ![t].message = create_pending_message]
  /\ Goto(t, "tts_add_request")
  /\ UNCHANGED <<calls, may_raise, result, warnings, errors, entered_running, op, raised_in,
                 tts_running, tts_lock, tts_audio_stream, tts_streams, tts_params, ttsRest>>

\* `stream.add_request(message)`; what it raises is logged as an error and
\* raised again.
TtsAddRequest(t) ==
  /\ pc[t] = "tts_add_request"
  /\ \E ok \in Outcomes :
       IF ok THEN /\ tts_streams' = [tts_streams EXCEPT ![tts_local[t].stream].pending =
                                       Append(@, tts_local[t].message)]
                  /\ Return(t) /\ UNCHANGED <<raised_in, errors>>
             ELSE /\ UNCHANGED tts_streams
                  /\ raised_in' = [raised_in EXCEPT ![t] = "stream.add_request"]
                  /\ LogError(t)
                  /\ Raise(t)
  /\ Forget(t)
  /\ UNCHANGED <<calls, may_raise, warnings, entered_running, op, tts_running, tts_lock,
                 tts_audio_stream, tts_params, ttsRest>>

TtsAdd(t) == TtsAddAcquire(t) \/ TtsAddRead(t) \/ TtsAddCreate(t) \/ TtsAddRequest(t)

\* ---- the providers' lifecycle under concurrent callers -----------------

AsrStart(t) ==
  \/ AsrStartAcquire(t) \/ AsrStartGuard(t) \/ AsrStartWs(t) \/ AsrStartAudio(t)
  \/ AsrStartStream(t) \/ AsrStartRegister(t) \/ AsrStartMonitor(t) \/ AsrStartThread(t)
  \/ AsrStartExceptAcquire(t) \/ AsrStartRollback(t)

AsrStop(t) ==
  \/ AsrStopAcquire(t) \/ AsrStopGuard(t) \/ AsrStopMonitor(t) \/ AsrStopJoin(t)
  \/ AsrStopAudio(t) \/ AsrStopWs(t) \/ AsrStopStream(t)

ReconnectMonitor ==
  \/ MonitorLoop \/ MonitorShouldAcquire \/ MonitorShould \/ MonitorWait

TtsStart(t) == TtsStartAcquire(t) \/ TtsStartGuard(t) \/ TtsStartStream(t)

TtsStop(t) == TtsStopAcquire(t) \/ TtsStopGuard(t) \/ TtsStopStream(t)

Next ==
  \/ \E t \in Callers : AsrStart(t) \/ AsrStop(t) \/ TtsStart(t) \/ TtsStop(t)
  \/ ReconnectMonitor
  \/ OldMonitors

Spec == Init /\ [][Next]_vars

\* ---- the provider's callers while reconnects are attempted ------------------

\* The thread that calls start(), stop() and register_message_callback().
Owner == 1

\* Calls of _attempt_reconnect in one run of SpecReconnect.
MaxAttemptCalls == 3

\* _attempt_reconnect() is called.
AttemptCall == attempt_calls < MaxAttemptCalls /\ AttemptAcquire

\* _attempt_reconnect() is called directly, beside the owner's calls and the
\* monitor loop.
NextReconnect ==
  \/ AsrStart(Owner) \/ AsrStop(Owner) \/ Register(Owner)
  \/ ReconnectMonitor
  \/ AttemptCall
  \/ AttemptSteps

SpecReconnect == Init /\ [][NextReconnect]_vars

\* ---- a provider that stays up while reconnects keep failing ---------------

\* Calls of _attempt_reconnect in one run of SpecBackoff: enough to use up the
\* attempts.
MaxBackoffCalls == 11

\* _attempt_reconnect() is called.
BackoffCall == attempt_calls < MaxBackoffCalls /\ AttemptAcquire

\* The owner starts the provider and does not stop it; _attempt_reconnect() is
\* called directly, beside the monitor loop.
NextBackoff ==
  \/ AsrStart(Owner)
  \/ ReconnectMonitor
  \/ BackoffCall
  \/ AttemptSteps

SpecBackoff == Init /\ [][NextBackoff]_vars

\* ---- reconnects attempted when the budget test allows them ------------------

\* Calls of _attempt_reconnect in one run of SpecBudget: one more than the
\* attempts there are.
MaxBudgetCalls == 11

\* BudgetTest without `if self._reconnect_attempts >= self._max_reconnect_attempts`.
BudgetTest_NoBudget ==
  /\ a_pc = "idle"
  /\ lock = Free
  /\ running
  /\ a_pc' = "tested"
  /\ UNCHANGED <<lock, a_attempts, a_delay, a_prev, attempt_calls, ws_client, stream_ws_client,
                 audio_callback, reconnect_attempts, ws_callbacks, stream_callbacks,
                 connection_lost, attemptFrame>>

\* The locked block of _should_reconnect() lets a reconnect through: the
\* provider is running and the attempts are not used up. The lock is taken,
\* the two tests are made and the lock is released.
BudgetTest ==
  /\ a_pc = "idle"
  /\ lock = Free
  /\ running
  /\ reconnect_attempts < MaxReconnectAttempts
  /\ a_pc' = "tested"
  /\ UNCHANGED <<lock, a_attempts, a_delay, a_prev, attempt_calls, ws_client, stream_ws_client,
                 audio_callback, reconnect_attempts, ws_callbacks, stream_callbacks,
                 connection_lost, attemptFrame>>

\* `if self._should_reconnect(): self._attempt_reconnect()`: the call is made
\* after the tests of _should_reconnect() have passed.
BudgetCall ==
  \/ attempt_calls < MaxBudgetCalls /\ BudgetTest
  \/ AttemptAcquireFrom("tested")

\* The owner starts and stops the provider; _attempt_reconnect() is called
\* when the locked tests of _should_reconnect() allow it.
NextBudget ==
  \/ AsrStart(Owner) \/ AsrStop(Owner)
  \/ BudgetCall
  \/ AttemptSteps

SpecBudget == Init /\ [][NextBudget]_vars

\* ---- the TTS provider under one caller, and under two -----------------------

\* One thread calls start(), stop(), configure() and add_pending_message(),
\* one call after the other.
NextConfigure ==
  \/ TtsStart(Owner) \/ TtsStop(Owner) \/ TtsConfigure(Owner) \/ TtsAdd(Owner)

SpecConfigure == Init /\ [][NextConfigure]_vars

\* Two threads call start(), stop() and configure() in any interleaving.
NextTtsCallers ==
  \E t \in Callers : TtsStart(t) \/ TtsStop(t) \/ TtsConfigure(t)

SpecTtsCallers == Init /\ [][NextTtsCallers]_vars

\* ---- both providers' locks while reconnects are attempted ---------------

\* Calls of _attempt_reconnect in one run of SpecLocks.
MaxLockCalls == 2

\* _attempt_reconnect() is called.
LockCall == attempt_calls < MaxLockCalls /\ AttemptAcquire

\* The owner starts and stops both providers; the monitor loop runs and
\* _attempt_reconnect() is called directly.
NextLocks ==
  \/ AsrStart(Owner) \/ AsrStop(Owner)
  \/ TtsStart(Owner) \/ TtsStop(Owner)
  \/ ReconnectMonitor
  \/ LockCall
  \/ AttemptSteps

SpecLocks == Init /\ [][NextLocks]_vars

\* ---- the monitor loop and a connection that drops -----------------------

\* The connection of the started ws_client drops (the network, the server).
ConnectionLost ==
  /\ ws_client
  /\ ~connection_lost
  /\ connection_lost' = TRUE
  /\ UNCHANGED <<lifecycleVars, pathVars, attemptVars, terminal_errors, spVars, moreVars>>

\* A step of the owner inside a method it has entered.
OwnerProgress == pc[Owner] # "idle" /\ (AsrStart(Owner) \/ AsrStop(Owner))

NextMonitor ==
  \/ AsrStart(Owner) \/ AsrStop(Owner)
  \/ ReconnectMonitor
  \/ ConnectionLost

\* The monitor thread is scheduled as long as it has a step to take, and so is
\* the owner inside a method; when the owner calls a method is up to it.
SpecMonitor ==
  /\ Init
  /\ [][NextMonitor]_vars
  /\ WF_vars(ReconnectMonitor)
  /\ WF_vars(OwnerProgress)

\* ---- SimplePathsProvider.start / stop and the workers -------------------

\* What no step of SimplePathsProvider's start(), stop() or workers changes.
spFrame == <<may_raise, pc, result, warnings, errors, entered_running, op, raised_in,
             asrVars, ttsVars, pathVars, attemptVars, monitorVars, moreVars>>

\* start(): the worker process is created and started unless one is alive.
SpStartProcess ==
  /\ sp_pc = "idle"
  /\ calls < MaxCalls
  /\ calls' = calls + 1
  /\ proc' = IF proc \in {"none", "exited"} THEN "opening" ELSE proc
  /\ sp_pc' = "start_derived"
  /\ UNCHANGED <<sp_stop_event, control_queue, derived_thread, spFrame>>

\* start(): the derivation thread is created and started unless one is alive.
SpStartDerived ==
  /\ sp_pc = "start_derived"
  /\ derived_thread' = IF derived_thread \in {"none", "exited"} THEN "running"
                                                                ELSE derived_thread
  /\ sp_pc' = "idle"
  /\ UNCHANGED <<calls, sp_stop_event, control_queue, proc, spFrame>>

\* stop(): `self._stop_event.set()`
SpStopSet ==
  /\ sp_pc = "idle"
  /\ calls < MaxCalls
  /\ calls' = calls + 1
  /\ sp_stop_event' = TRUE
  /\ sp_pc' = "stop_process"
  /\ UNCHANGED <<control_queue, proc, derived_thread, spFrame>>

\* stop(): `if self._simple_paths_processor_thread: self.control_queue.put("STOP")`
SpStopSignal ==
  /\ sp_pc = "stop_process"
  /\ IF proc = "none"
       THEN sp_pc' = "stop_derived" /\ UNCHANGED control_queue
       ELSE sp_pc' = "join_process" /\ control_queue' = Append(control_queue, "STOP")
  /\ UNCHANGED <<calls, sp_stop_event, proc, derived_thread, spFrame>>

\* stop(): `self._simple_paths_processor_thread.join()`: no timeout, it returns
\* when the process has ended.
SpStopJoinProcess ==
  /\ sp_pc = "join_process"
  /\ proc = "exited"
  /\ sp_pc' = "stop_derived"
  /\ UNCHANGED <<calls, sp_stop_event, control_queue, proc, derived_thread, spFrame>>

\* stop(): `if self._simple_paths_derived_thread:`
SpStopDerived ==
  /\ sp_pc = "stop_derived"
  /\ sp_pc' = IF derived_thread = "none" THEN "idle" ELSE "join_derived"
  /\ UNCHANGED <<calls, sp_stop_event, control_queue, proc, derived_thread, spFrame>>

\* stop(): `self._simple_paths_derived_thread.join()`: no timeout either.
SpStopJoinDerived ==
  /\ sp_pc = "join_derived"
  /\ derived_thread = "exited"
  /\ sp_pc' = "idle"
  /\ UNCHANGED <<calls, sp_stop_event, control_queue, proc, derived_thread, spFrame>>

\* What no step of the worker process changes.
workerFrame == <<calls, sp_pc, sp_stop_event, derived_thread, may_raise, pc, result,
                 warnings, errors, entered_running, op, raised_in, asrVars, ttsVars,
                 pathVars, attemptVars, monitorVars, hostVars, laterVars>>

\* ProcessOpen without the `try`: what open_zenoh_session() or
\* declare_subscriber raises ends the process.
ProcessOpen_Crashes ==
  /\ proc = "opening"
  /\ \E ok \in Outcomes :
       /\ subscriber' = ok
       /\ proc' = IF ok THEN "loop" ELSE "exited"
  /\ UNCHANGED <<open_errors, taken, control_queue, workerFrame>>

\* simple_paths_processor: open_zenoh_session() and declare_subscriber return,
\* or one of them raises, the error is logged and there is no subscriber; the
\* process goes on to its loop either way.
ProcessOpen ==
  /\ proc = "opening"
  /\ \E ok \in Outcomes :
       /\ subscriber' = ok
       /\ open_errors' = IF ok THEN open_errors ELSE open_errors + 1
  /\ proc' = "loop"
  /\ UNCHANGED <<taken, control_queue, workerFrame>>

\* simple_paths_processor: open_zenoh_session() does not return.
ProcessOpenHangs ==
  /\ proc = "opening"
  /\ proc' = "hung"
  /\ UNCHANGED <<calls, sp_pc, sp_stop_event, control_queue, derived_thread, spFrame>>

\* ProcessPoll without the `if cmd == "STOP":` test: any command ends the loop.
ProcessPoll_AnyCommand ==
  /\ proc = "loop"
  /\ control_queue # <<>>
  /\ control_queue' = Tail(control_queue)
  /\ taken' = Append(taken, Head(control_queue))
  /\ proc' = "exited"
  /\ UNCHANGED <<subscriber, open_errors, workerFrame>>

\* simple_paths_processor: `cmd = control_queue.get_nowait()`; "STOP" ends the
\* loop and the process, any other command is dropped; on Empty the loop
\* sleeps and polls again.
ProcessPoll ==
  /\ proc = "loop"
  /\ control_queue # <<>>
  /\ control_queue' = Tail(control_queue)
  /\ taken' = Append(taken, Head(control_queue))
  /\ proc' = IF Head(control_queue) = "STOP" THEN "exited" ELSE "loop"
  /\ UNCHANGED <<subscriber, open_errors, workerFrame>>

\* _simple_paths_derived_processor: `while not self._stop_event.is_set():`
\* finds the event set and the thread ends.
DerivedExit ==
  /\ derived_thread = "running"
  /\ d_pc = "poll"
  /\ sp_stop_event
  /\ derived_thread' = "exited"
  /\ UNCHANGED <<calls, sp_pc, sp_stop_event, control_queue, proc, spFrame>>

SpStart == SpStartProcess \/ SpStartDerived

SpStop == SpStopSet \/ SpStopSignal \/ SpStopJoinProcess \/ SpStopDerived \/ SpStopJoinDerived

SpWorkers == ProcessOpen \/ ProcessOpenHangs \/ ProcessPoll \/ DerivedExit

\* ---- SimplePathsProvider.start called by a second thread -----------------

\* What no step of the second thread's start() changes.
starterFrame == <<sp_pc, sp_stop_event, control_queue, may_raise, pc, result, warnings,
                  errors, entered_running, op, raised_in, asrVars, ttsVars, pathVars,
                  attemptVars, monitorVars, workerVars, hostVars, exceptStarter>>

\* is_alive() of the worker process and of the derivation thread.
ProcessAlive == proc \in {"opening", "loop", "hung"}
DerivedAlive == derived_thread = "running"

\* start() by the second thread: the test `not self._simple_paths_processor_thread
\* or not self._simple_paths_processor_thread.is_alive()`.
Sp2TestProcess ==
  /\ sp2_pc = "idle"
  /\ calls < MaxCalls
  /\ calls' = calls + 1
  /\ sp2_pc' = IF ProcessAlive THEN "test_derived" ELSE "create_process"
  /\ UNCHANGED <<proc, derived_thread, orphans, starterFrame>>

\* The new mp.Process is assigned to the attribute and started; a process
\* started since the test runs on, and the attribute no longer refers to it.
Sp2CreateProcess ==
  /\ sp2_pc = "create_process"
  /\ orphans' = [orphans EXCEPT !.process = IF ProcessAlive THEN @ + 1 ELSE @]
  /\ proc' = "opening"
  /\ sp2_pc' = "test_derived"
  /\ UNCHANGED <<calls, derived_thread, starterFrame>>

\* The test `not self._simple_paths_derived_thread or not
\* self._simple_paths_derived_thread.is_alive()`.
Sp2TestDerived ==
  /\ sp2_pc = "test_derived"
  /\ sp2_pc' = IF DerivedAlive THEN "idle" ELSE "create_derived"
  /\ UNCHANGED <<calls, proc, derived_thread, orphans, starterFrame>>

\* The new Thread is assigned to the attribute and started; a thread started
\* since the test runs on.
Sp2CreateDerived ==
  /\ sp2_pc = "create_derived"
  /\ orphans' = [orphans EXCEPT !.derived = IF DerivedAlive THEN @ + 1 ELSE @]
  /\ derived_thread' = "running"
  /\ sp2_pc' = "idle"
  /\ UNCHANGED <<calls, proc, starterFrame>>

Sp2Start == Sp2TestProcess \/ Sp2CreateProcess \/ Sp2TestDerived \/ Sp2CreateDerived

\* ---- start() of the stopped providers by two threads at once ---------------

\* Two threads call start() of the ASR provider and two call start() of the
\* SimplePathsProvider; nobody calls stop(). The workers run.
NextConcurrentStart ==
  \/ \E t \in Callers : AsrStart(t)
  \/ ReconnectMonitor
  \/ SpStart \/ Sp2Start
  \/ ProcessOpen \/ ProcessOpenHangs

SpecConcurrentStart == Init /\ [][NextConcurrentStart]_vars

\* ---- stopping the two providers -----------------------------------------

\* The owner starts and stops the ASR provider, another thread starts and
\* stops the SimplePathsProvider; the workers of both run.
NextStop ==
  \/ AsrStart(Owner) \/ AsrStop(Owner)
  \/ ReconnectMonitor
  \/ SpStart \/ SpStop
  \/ SpWorkers

SpecStop == Init /\ [][NextStop]_vars

\* ---- SimplePathsProvider: paths_callback (worker process) ---------------

\* Callbacks that have returned.
Returned == IF cb_pc = "idle" THEN arrived ELSE arrived - 1

\* CallbackPut without the `except Full:` handler: on a full queue the
\* incoming frame is the one lost.
CallbackPut_DropIncoming(p) ==
  /\ cb_pc = "idle"
  /\ arrived' = arrived + 1
  /\ IF Len(data_queue) < QueueMaxSize
       THEN /\ data_queue' = Append(data_queue, Frame(arrived + 1, "list", p))
            /\ cb_last' = [id |-> arrived + 1, inserted |-> TRUE, evicted |-> <<>>]
       ELSE /\ cb_last' = [id |-> arrived + 1, inserted |-> FALSE, evicted |-> <<>>]
            /\ UNCHANGED data_queue
  /\ UNCHANGED <<cb_pc, cb_frame, lifecycleVars, extraVars, derivedVars, snapshotVars>>

\* `data_queue.put_nowait(paths)` of a message whose paths list is p: the frame
\* is queued, or the queue is full and Full is raised.
CallbackPut(p) ==
  /\ cb_pc = "idle"
  /\ arrived' = arrived + 1
  /\ IF Len(data_queue) < QueueMaxSize
       THEN /\ data_queue' = Append(data_queue, Frame(arrived + 1, "list", p))
            /\ cb_last' = [id |-> arrived + 1, inserted |-> TRUE, evicted |-> <<>>]
            /\ UNCHANGED <<cb_pc, cb_frame>>
       ELSE /\ cb_pc' = "evict_get"
            /\ cb_frame' = Frame(arrived + 1, "list", p)
            /\ cb_last' = [id |-> arrived + 1, inserted |-> FALSE, evicted |-> <<>>]
            /\ UNCHANGED data_queue
  /\ UNCHANGED <<lifecycleVars, extraVars, derivedVars, snapshotVars>>

\* `except Full: data_queue.get_nowait()`: the oldest frame is taken out, or
\* the queue is empty by now, Empty is raised and `except Empty: pass` ends
\* the callback.
CallbackEvictGet ==
  /\ cb_pc = "evict_get"
  /\ IF data_queue # <<>>
       THEN /\ data_queue' = Tail(data_queue)
            /\ cb_last' = [cb_last EXCEPT !.evicted = Append(@, Head(data_queue).id)]
            /\ cb_pc' = "evict_put"
            /\ UNCHANGED cb_frame
       ELSE /\ cb_pc' = "idle"
            /\ cb_frame' = NoFrame
            /\ UNCHANGED <<data_queue, cb_last>>
  /\ UNCHANGED <<arrived, lifecycleVars, extraVars, derivedVars, snapshotVars>>

\* The second `data_queue.put_nowait(paths)`; a Full raised here is not caught
\* and ends the callback.
CallbackEvictPut ==
  /\ cb_pc = "evict_put"
  /\ IF Len(data_queue) < QueueMaxSize
       THEN /\ data_queue' = Append(data_queue, cb_frame)
            /\ cb_last' = [cb_last EXCEPT !.inserted = TRUE]
       ELSE UNCHANGED <<data_queue, cb_last>>
  /\ cb_pc' = "idle"
  /\ cb_frame' = NoFrame
  /\ UNCHANGED <<arrived, lifecycleVars, extraVars, derivedVars, snapshotVars>>

\* ---- SimplePathsProvider._simple_paths_derived_processor ----------------

\* DerivedGet on a queue that hands out its newest item first.
DerivedGet_Newest ==
  /\ d_pc = "poll"
  /\ IF data_queue = <<>>
       THEN UNCHANGED <<data_queue, derivedVars>>
       ELSE /\ paths' = data_queue[Len(data_queue)]
            /\ data_queue' = SubSeq(data_queue, 1, Len(data_queue) - 1)
            /\ consumed' = Append(consumed, data_queue[Len(data_queue)].id)
            /\ first_get' = IF first_get < 0 THEN Returned ELSE first_get
            /\ d_i' = 0
            /\ d_pc' = IF data_queue[Len(data_queue)].kind = "list" THEN "reset_left"
                                                                    ELSE "poll"
  /\ UNCHANGED <<arrived, cb_pc, cb_frame, cb_last, lifecycleVars, extraVars, snapshotVars>>

\* DerivedGet without the three validity checks: every item taken is processed
\* as a frame.
DerivedGet_NoChecks ==
  /\ d_pc = "poll"
  /\ IF data_queue = <<>>
       THEN UNCHANGED <<data_queue, derivedVars>>
       ELSE /\ paths' = Head(data_queue)
            /\ data_queue' = Tail(data_queue)
            /\ consumed' = Append(consumed, Head(data_queue).id)
            /\ first_get' = IF first_get < 0 THEN Returned ELSE first_get
            /\ d_i' = 0
            /\ d_pc' = "reset_left"
  /\ UNCHANGED <<arrived, cb_pc, cb_frame, cb_last, lifecycleVars, extraVars, snapshotVars>>

\* `paths = self.data_queue.get_nowait()` and the three validity checks; on
\* Empty the loop sleeps and polls again.
DerivedGet ==
  /\ d_pc = "poll"
  /\ IF data_queue = <<>>
       THEN UNCHANGED <<data_queue, derivedVars>>
       ELSE /\ paths' = Head(data_queue)
            /\ data_queue' = Tail(data_queue)
            /\ consumed' = Append(consumed, Head(data_queue).id)
            /\ first_get' = IF first_get < 0 THEN Returned ELSE first_get
            /\ d_i' = 0
            /\ d_pc' = IF Head(data_queue).kind = "list" THEN "reset_left" ELSE "poll"
  /\ UNCHANGED <<arrived, cb_pc, cb_frame, cb_last, lifecycleVars, extraVars, snapshotVars>>

\* DerivedResetLeft without `self.turn_left = []`: the list of the previous
\* frame is appended to.
DerivedResetLeft_Keep ==
  /\ d_pc = "reset_left"
  /\ d_pc' = "reset_right"
  /\ UNCHANGED <<paths, d_i, consumed, first_get, turn_left, turn_right, advance, retreat,
                 valid_paths, lidar_string, callbackVars, lifecycleVars, extraVars>>

\* `self.turn_left = []`
DerivedResetLeft ==
  /\ d_pc = "reset_left"
  /\ turn_left' = <<>>
  /\ d_pc' = "reset_right"
  /\ UNCHANGED <<paths, d_i, consumed, first_get, turn_right, advance, retreat,
                 valid_paths, lidar_string, callbackVars, lifecycleVars, extraVars>>

\* `self.turn_right = []`
DerivedResetRight ==
  /\ d_pc = "reset_right"
  /\ turn_right' = <<>>
  /\ d_pc' = "reset_advance"
  /\ UNCHANGED <<paths, d_i, consumed, first_get, turn_left, advance, retreat,
                 valid_paths, lidar_string, callbackVars, lifecycleVars, extraVars>>

\* `self.advance = []`
DerivedResetAdvance ==
  /\ d_pc = "reset_advance"
  /\ advance' = <<>>
  /\ d_pc' = "reset_retreat"
  /\ UNCHANGED <<paths, d_i, consumed, first_get, turn_left, turn_right, retreat,
                 valid_paths, lidar_string, callbackVars, lifecycleVars, extraVars>>

\* DerivedResetRetreat without `self.retreat = False`.
DerivedResetRetreat_Keep ==
  /\ d_pc = "reset_retreat"
  /\ d_pc' = IF Len(paths.paths) = 0 THEN "set_valid" ELSE "classify"
  /\ UNCHANGED <<paths, d_i, consumed, first_get, turn_left, turn_right, advance,
                 retreat, valid_paths, lidar_string, callbackVars, lifecycleVars, extraVars>>

\* `self.retreat = False`; an empty list goes on to publish, any other to the
\* for loop.
DerivedResetRetreat ==
  /\ d_pc = "reset_retreat"
  /\ retreat' = FALSE
  /\ d_pc' = IF Len(paths.paths) = 0 THEN "set_valid" ELSE "classify"
  /\ UNCHANGED <<paths, d_i, consumed, first_get, turn_left, turn_right, advance,
                 valid_paths, lidar_string, callbackVars, lifecycleVars, extraVars>>

\* Bucket with the bounds of the comparisons off by one: 3 counts as a left
\* turn and 9 as a right turn.
Bucket_OffByOne(path) ==
  IF ~path.isint THEN "skip"
  ELSE IF path.val < 0 \/ path.val > 9 THEN "skip"
  ELSE IF path.val <= 3 THEN "turn_left"
  ELSE IF path.val >= 3 /\ path.val <= 5 THEN "advance"
  ELSE IF path.val <= 9 THEN "turn_right"
  ELSE "skip"

\* The bucket the for loop's body puts `path` in: "skip" for what is not an int
\* or is outside 0..9.
Bucket(path) ==
  IF ~path.isint THEN "skip"
  ELSE IF path.val < 0 \/ path.val > 9 THEN "skip"
  ELSE IF path.val < 3 THEN "turn_left"
  ELSE IF path.val >= 3 /\ path.val <= 5 THEN "advance"
  ELSE IF path.val < 9 THEN "turn_right"
  ELSE IF path.val = 9 THEN "retreat"
  ELSE "skip"

\* One pass of `for path in paths.paths:`.
DerivedClassify ==
  /\ d_pc = "classify"
  /\ LET path == paths.paths[d_i + 1]
         b == Bucket(path)
     IN /\ turn_left' = IF b = "turn_left" THEN Append(turn_left, path.val) ELSE turn_left
        /\ advance' = IF b = "advance" THEN Append(advance, path.val) ELSE advance
        /\ turn_right' = IF b = "turn_right" THEN Append(turn_right, path.val) ELSE turn_right
        /\ retreat' = IF b = "retreat" THEN TRUE ELSE retreat
  /\ d_i' = d_i + 1
  /\ d_pc' = IF d_i + 1 = Len(paths.paths) THEN "set_valid" ELSE "classify"
  /\ UNCHANGED <<paths, consumed, first_get, valid_paths, lidar_string, callbackVars,
                 lifecycleVars, extraVars>>

\* `self._valid_paths = paths`
DerivedSetValid ==
  /\ d_pc = "set_valid"
  /\ valid_paths' = paths
  /\ d_pc' = "set_string"
  /\ UNCHANGED <<paths, d_i, consumed, first_get, turn_left, turn_right, advance,
                 retreat, lidar_string, callbackVars, lifecycleVars, extraVars>>

\* generate_movement_string with the tests of turn_left and turn_right swapped.
generate_movement_string_Swapped(valid) ==
  IF valid = <<>>
    THEN "You are surrounded by objects and cannot safely move in any direction. DO NOT MOVE."
    ELSE "The safe movement directions are: {"
         \o (IF turn_right # <<>> THEN "'turn left', " ELSE "")
         \o (IF advance # <<>> THEN "'move forwards', " ELSE "")
         \o (IF turn_left # <<>> THEN "'turn right', " ELSE "")
         \o (IF retreat THEN "'move back', " ELSE "")
         \o "'stand still'}. "

\* _generate_movement_string(valid_paths), reading the buckets as they are.
generate_movement_string(valid) ==
  IF valid = <<>>
    THEN "You are surrounded by objects and cannot safely move in any direction. DO NOT MOVE."
    ELSE "The safe movement directions are: {"
         \o (IF turn_left # <<>> THEN "'turn left', " ELSE "")
         \o (IF advance # <<>> THEN "'move forwards', " ELSE "")
         \o (IF turn_right # <<>> THEN "'turn right', " ELSE "")
         \o (IF retreat THEN "'move back', " ELSE "")
         \o "'stand still'}. "

\* `self._lidar_string = self._generate_movement_string(...)`, then the loop
\* polls again.
DerivedSetString ==
  /\ d_pc = "set_string"
  /\ lidar_string' = generate_movement_string(paths.paths)
  /\ d_pc' = "poll"
  /\ UNCHANGED <<paths, d_i, consumed, first_get, turn_left, turn_right, advance,
                 retreat, valid_paths, callbackVars, lifecycleVars, extraVars>>

\* The derivation loop.
Derived ==
  \/ DerivedGet \/ DerivedResetLeft \/ DerivedResetRight \/ DerivedResetAdvance
  \/ DerivedResetRetreat \/ DerivedClassify \/ DerivedSetValid \/ DerivedSetString

\* ---- SimplePathsProvider: the properties a reader calls --------------------

\* The `movement_options` property: a dict of the four attributes as they are
\* at the moment of the read.
movement_options ==
  [turn_left |-> turn_left, advance |-> advance, turn_right |-> turn_right,
   retreat |-> retreat]

\* The `lidar_string` and `valid_paths` properties, and the three together as
\* one reader gets them.
ReaderView ==
  [movement_options |-> movement_options, lidar_string |-> lidar_string,
   valid_paths |-> valid_paths]

\* ---- the pipeline under a stream of sample frames -----------------------

\* The pipeline starts as constructed; the other providers are left alone.
InitPipeline == Init /\ ~stream_url /\ ~may_raise

\* Messages the callback receives in one run.
MaxFrames == 6

\* Paths lists the sample messages carry.
SamplePaths ==
  { <<>>,
    <<IntPath(1), IntPath(4), IntPath(9)>>,
    <<IntPath(6)>>,
    <<IntPath(10)>> }

\* A message arrives on "om/paths" and zenoh calls paths_callback.
PathsCallback == arrived < MaxFrames /\ \E p \in SamplePaths : CallbackPut(p)

NextPaths ==
  \/ PathsCallback
  \/ CallbackEvictGet
  \/ CallbackEvictPut
  \/ Derived

SpecPaths == InitPipeline /\ [][NextPaths]_vars

\* ---- the derivation of one arbitrary frame -------------------------------

\* Longest paths list of the arbitrary frame.
MaxPathLen == 3

\* Bounds of the range check `path < 0 or path > 9`.
MinIndex == 0
MaxIndex == 9

\* An element that is not an int.
NotInt == [isint |-> FALSE, val |-> 0]

\* Elements of a paths list: every valid index, one int below and one above the
\* valid range, and a non-int.
PathElems == {IntPath(v) : v \in (MinIndex - 1)..(MaxIndex + 1)} \cup {NotInt}

\* All paths lists of up to MaxPathLen elements.
AnyPaths == UNION {[1..k -> PathElems] : k \in 0..MaxPathLen}

\* A sample message arrives, then one message with an arbitrary paths list; the
\* queue stays below its capacity, so the callback's put never raises Full.
AnyCallback ==
  \/ arrived = 0 /\ \E p \in SamplePaths : CallbackPut(p)
  \/ arrived = 1 /\ \E p \in AnyPaths : CallbackPut(p)

NextClassify == AnyCallback \/ Derived

SpecClassify == InitPipeline /\ [][NextClassify]_vars

\* ---- the worker process, its control queue and its subscriber -----------

\* Commands other than "STOP" put on the control queue in one run.
MaxControl == 2

\* Messages zenoh delivers to the worker's subscriber in one run.
MaxWorkerFrames == 2

\* A value other than "STOP" is put on self.control_queue.
ControlPutOther ==
  /\ Len(SelectSeq(taken \o control_queue, LAMBDA c : c # "STOP")) < MaxControl
  /\ control_queue' = Append(control_queue, "PAUSE")
  /\ UNCHANGED <<calls, sp_pc, sp_stop_event, proc, derived_thread, spFrame>>

\* zenoh calls paths_callback of a worker that is alive and has declared its
\* subscriber; the queue stays below its capacity.
WorkerCallback ==
  /\ proc = "loop"
  /\ subscriber
  /\ arrived < MaxWorkerFrames
  /\ \E p \in {<<>>, <<IntPath(6)>>} : CallbackPut(p)

NextWorker ==
  \/ SpStart \/ SpStop
  \/ SpWorkers
  \/ ControlPutOther
  \/ WorkerCallback

\* The worker's loop polls ten times a second: it is scheduled as long as
\* there is a command for it to take.
SpecWorker == Init /\ [][NextWorker]_vars /\ WF_vars(ProcessPoll)

\* ---- the derivation loop and items that are not frames -------------------

\* Items put on the data queue in one run.
MaxRejectFrames == 3

\* What the derivation loop rejects: None, an object without a `paths`
\* attribute, an object whose `paths` is not a list.
InvalidKinds == {"none", "noattr", "notlist"}

\* An item of kind k that is not a frame is put on self.data_queue.
PutInvalid(k) ==
  /\ cb_pc = "idle"
  /\ Len(data_queue) < QueueMaxSize
  /\ arrived' = arrived + 1
  /\ data_queue' = Append(data_queue, Frame(arrived + 1, k, <<>>))
  /\ UNCHANGED <<cb_pc, cb_frame, cb_last, lifecycleVars, extraVars, derivedVars,
                 snapshotVars>>

\* A sample message arrives, or an item that is not a frame is put on the
\* queue; the queue stays below its capacity.
AnyItem ==
  /\ arrived < MaxRejectFrames
  /\ \/ \E p \in SamplePaths : CallbackPut(p)
     \/ \E k \in InvalidKinds : PutInvalid(k)

NextReject == AnyItem \/ Derived

SpecReject == InitPipeline /\ [][NextReject]_vars

\* ---- background plugins: construction ----------------------------------------

\* Background plugins the host constructs in one run.
MaxBackgrounds == 3

\* What the configuration holds for the plugin's channel (unitree_ethernet,
\* serial_port): None (the default), the empty string, or a name.
ConfigValues == {"None", "", "name"}

\* UnitreeGo2State.__init__(config): `if not unitree_ethernet:` logs an error
\* and raises ValueError; else the provider is created.
UnitreeGo2State(value) ==
  IF value \in {"None", ""}
    THEN [plugin |-> "UnitreeGo2State", config |-> value, raised |-> TRUE,
          provider |-> FALSE, errors |-> 1]
    ELSE [plugin |-> "UnitreeGo2State", config |-> value, raised |-> FALSE,
          provider |-> TRUE, errors |-> 0]

\* Gps.__init__(config): `if port is None:` logs an error and returns; else the
\* provider is created with the port.
Gps(value) ==
  IF value = "None"
    THEN [plugin |-> "Gps", config |-> value, raised |-> FALSE,
          provider |-> FALSE, errors |-> 1]
    ELSE [plugin |-> "Gps", config |-> value, raised |-> FALSE,
          provider |-> TRUE, errors |-> 0]

\* The host constructs a background plugin from its configuration.
LoadBackground ==
  /\ Len(backgrounds) < MaxBackgrounds
  /\ \E value \in ConfigValues :
       \/ backgrounds' = Append(backgrounds, UnitreeGo2State(value))
       \/ backgrounds' = Append(backgrounds, Gps(value))
  /\ UNCHANGED <<lifecycleVars, pathVars, attemptVars, monitorVars, spVars, workerVars,
                 laterVars>>

NextBackgrounds == LoadBackground

SpecBackgrounds == Init /\ [][NextBackgrounds]_vars

\* ---- the loops of both providers and the stop signal ------------------------

\* The derivation thread runs its loop while it is alive; at the `while` test
\* with the event set it takes nothing from the queue.
DerivedRun ==
  /\ derived_thread = "running"
  /\ d_pc = "poll" => ~sp_stop_event
  /\ Derived

\* The derivation thread: its loop and the exit from it.
DerivedThread == DerivedRun \/ DerivedExit

\* A step of the SimplePathsProvider's caller inside start() or stop().
SpProgress == sp_pc # "idle" /\ (SpStart \/ SpStop)

\* The owner starts and stops the ASR provider, another thread starts and
\* stops the SimplePathsProvider; the monitor loop, the worker process with
\* its subscriber and the derivation thread run.
NextCancel ==
  \/ AsrStart(Owner) \/ AsrStop(Owner)
  \/ ReconnectMonitor
  \/ SpStart \/ SpStop
  \/ ProcessOpen \/ ProcessOpenHangs \/ ProcessPoll
  \/ WorkerCallback
  \/ DerivedThread

\* Every thread is scheduled as long as it has a step to take: the monitor
\* (it wakes at least every check interval), the derivation thread (it polls
\* ten times a second), the worker's poll, and a caller inside a method. When
\* a method is called is up to the caller.
SpecCancel ==
  /\ Init
  /\ [][NextCancel]_vars
  /\ WF_vars(ReconnectMonitor)
  /\ WF_vars(DerivedThread)
  /\ WF_vars(ProcessPoll)
  /\ WF_vars(OwnerProgress)
  /\ WF_vars(SpProgress)

\* ---- lifecycle claims ---------------------------------------------------

\* What start()/stop() of either provider can start, stop or join.
workers == <<ws_client, stream_ws_client, audio_stream, audio_callback,
             reconnect_thread, stop_reconnect, tts_stream>>

\* Caller t is running the locked block of `m` and finds the flag equal to `flag`.
AtGuard(t, asr_pos, tts_pos, flag) ==
  \/ pc[t] = asr_pos /\ running = flag
  \/ pc[t] = tts_pos /\ tts_running = flag

\* Every caller is outside every method.
Quiescent == \A t \in Callers : pc[t] = "idle"

\* C1: start() on a provider (ASR or TTS) whose running flag is already True
\* leaves the flag True, logs exactly one warning, returns, and starts no
\* client, stream or monitor thread.
C1_StartWhenRunning ==
  [][\A t \in Callers :
       AtGuard(t, "start_locked", "tts_start_locked", TRUE) /\ pc'[t] # pc[t]
         => /\ running' = running /\ tts_running' = tts_running
            /\ warnings'[t] = 1
            /\ pc'[t] = "idle" /\ result'[t] = "ok"
            /\ workers' = workers]_vars

\* A second start() of the running ASR provider has returned while the TTS
\* provider runs too.
C1_Witness ==
  \E t \in Callers :
    /\ op[t] = "asr_start" /\ pc[t] = "idle" /\ entered_running[t]
    /\ warnings[t] = 1 /\ running /\ ws_client /\ audio_stream
    /\ reconnect_thread # "none"

\* C2: stop() on a provider (ASR or TTS) whose running flag is False returns
\* without an error, leaves the flag False, and stops or joins nothing.
C2_StopWhenStopped ==
  [][\A t \in Callers :
       AtGuard(t, "stop_locked", "tts_stop_locked", FALSE) /\ pc'[t] # pc[t]
         => /\ running' = running /\ tts_running' = tts_running
            /\ pc'[t] = "idle" /\ result'[t] = "ok" /\ errors'[t] = 0
            /\ workers' = workers]_vars

\* stop() of the stopped ASR provider has returned after an earlier start()
\* and stop(), so there were clients and a monitor it could have touched.
C2_Witness ==
  \E t \in Callers :
    /\ op[t] = "asr_stop" /\ pc[t] = "idle" /\ ~entered_running[t]
    /\ result[t] = "ok" /\ ~running /\ calls = MaxCalls

\* C3: ASRProvider.start(): a call in which a side effect raised performs no
\* further side effect and ends with the exception propagated and running
\* False; a call in which none raised does not end with an exception.
C3_StartRollsBack ==
  [][\A t \in Callers :
       op[t] = "asr_start" /\ pc[t] # "idle" =>
         /\ raised_in[t] # "none" => pc[t] \in {"start_except", "start_rollback"}
         /\ pc'[t] = "idle" =>
              /\ result'[t] = "raised" <=> raised_in[t] # "none"
              /\ result'[t] = "raised" => running' = FALSE]_vars

\* start() has ended with the exception of audio_stream.start() and the
\* flag is back to False, with ws_client left started.
C3_Witness ==
  \E t \in Callers :
    /\ op[t] = "asr_start" /\ result[t] = "raised"
    /\ raised_in[t] = "audio_stream.start" /\ ~running /\ ws_client

\* C4: ElevenLabsTTSProvider.start(): when starting the audio output stream
\* raises, the call ends with running rolled back to False.
C4_TtsStartRollsBack ==
  [][\A t \in Callers :
       op[t] = "tts_start" /\ pc[t] # "idle" /\ result'[t] = "raised"
         => tts_running' = FALSE]_vars

\* C5: once every start()/stop() call on the ASR provider has returned, and
\* no collaborator raised, running = True implies the clients and the audio
\* stream are started and running = False implies they are stopped.
C5_NoHalfAppliedTransition ==
  (Quiescent /\ ~may_raise) =>
    /\ running => ws_client /\ audio_stream /\ (stream_url => stream_ws_client)
    /\ ~running => ~ws_client /\ ~audio_stream /\ ~stream_ws_client

\* ---- pipeline claims ----------------------------------------------------

\* The ids of a sequence of frames.
Ids(q) == [i \in 1..Len(q) |-> q[i].id]

\* The derivation loop has finished the frame in `paths` and taken no other.
Processed == d_pc = "poll" /\ paths.id >= 1 /\ paths.kind = "list"

\* Some element of list p is an int in lo..hi.
Has(p, lo, hi) ==
  \E i \in 1..Len(p) : p[i].isint /\ p[i].val >= lo /\ p[i].val <= hi

\* Value v occurs in bucket b.
In(v, b) == \E i \in 1..Len(b) : b[i] = v

\* C6: with no concurrent consumer (nothing is taken from the queue before
\* the callbacks have returned), QueueMaxSize + 1 pushes leave frames
\* 2..QueueMaxSize+1 in the queue, and get_nowait returns them in that order.
C6_QueueOverwrite ==
  ( /\ arrived = QueueMaxSize + 1 /\ cb_pc = "idle"
    /\ first_get < 0 \/ first_get = QueueMaxSize + 1 )
  => consumed \o Ids(data_queue) = [i \in 1..QueueMaxSize |-> i + 1]

\* Six frames were pushed with the consumer idle, and the consumer has since
\* taken three of the five retained.
C6_Witness ==
  /\ arrived = QueueMaxSize + 1 /\ cb_pc = "idle"
  /\ first_get = QueueMaxSize + 1 /\ Len(consumed) = 3 /\ Len(data_queue) = 2

\* C7: under every interleaving with the consumer, when paths_callback returns
\* its frame is in the queue and at most one frame was evicted for it.
C7_LatestWins ==
  cb_pc = "idle" => cb_last.inserted /\ Len(cb_last.evicted) <= 1

\* C8: after a non-empty list of ints is processed, each index 0..2 of the
\* frame is in turn_left only, each 3..5 in advance only, each 6..8 in
\* turn_right only, retreat is True iff 9 is in the frame, and the buckets hold
\* nothing outside 0..9.
C8_Classification ==
  ( /\ Processed /\ paths.paths # <<>>
    /\ \A i \in 1..Len(paths.paths) : paths.paths[i].isint )
  => /\ \A v \in 0..2 : Has(paths.paths, v, v) =>
          In(v, turn_left) /\ ~In(v, advance) /\ ~In(v, turn_right)
     /\ \A v \in 3..5 : Has(paths.paths, v, v) =>
          In(v, advance) /\ ~In(v, turn_left) /\ ~In(v, turn_right)
     /\ \A v \in 6..8 : Has(paths.paths, v, v) =>
          In(v, turn_right) /\ ~In(v, turn_left) /\ ~In(v, advance)
     /\ retreat <=> Has(paths.paths, 9, 9)
     /\ \A v \in (MinIndex - 1)..(MaxIndex + 1) :
          In(v, turn_left) \/ In(v, advance) \/ In(v, turn_right)
            => v >= 0 /\ v <= 9

\* The list [3, 9, 10] has been processed after a sample frame.
C8_Witness ==
  /\ Processed /\ paths.id = 2
  /\ paths.paths = <<IntPath(3), IntPath(9), IntPath(10)>>

\* C9: after an empty paths list is processed, the buckets are empty, retreat
\* is False and the summary is the immobility message, whatever the snapshot
\* held before.
C9_EmptyFrame ==
  (Processed /\ paths.paths = <<>>)
  => /\ turn_left = <<>> /\ advance = <<>> /\ turn_right = <<>> /\ retreat = FALSE
     /\ lidar_string =
          "You are surrounded by objects and cannot safely move in any direction. DO NOT MOVE."

\* An empty list has been processed as the third frame, the buckets having
\* been filled before.
C9_Witness ==
  Processed /\ paths.paths = <<>> /\ paths.id = 3 /\ consumed = <<1, 2, 3>>

\* The summary the claim describes for a frame: the prefix, then each verb
\* whose index range occurs in the frame, in the fixed order, then stand still.
ExpectedSummary(p) ==
  "The safe movement directions are: {"
  \o (IF Has(p, 0, 2) THEN "'turn left', " ELSE "")
  \o (IF Has(p, 3, 5) THEN "'move forwards', " ELSE "")
  \o (IF Has(p, 6, 8) THEN "'turn right', " ELSE "")
  \o (IF Has(p, 9, 9) THEN "'move back', " ELSE "")
  \o "'stand still'}. "

Indexes(p, lo, hi) ==
  LET keep == SelectSeq(p, LAMBDA e : e.isint /\ e.val >= lo /\ e.val <= hi)
  IN [i \in 1..Len(keep) |-> keep[i].val]

\* What a reader gets when everything it reads is derived from frame f.
SnapshotOf(f) ==
  [movement_options |->
     [turn_left |-> Indexes(f.paths, 0, 2), advance |-> Indexes(f.paths, 3, 5),
      turn_right |-> Indexes(f.paths, 6, 8), retreat |-> Has(f.paths, 9, 9)],
   lidar_string |-> IF f.paths = <<>>
                      THEN "You are surrounded by objects and cannot safely move in any direction. DO NOT MOVE."
                      ELSE ExpectedSummary(f.paths),
   valid_paths |-> f]

\* The snapshot of __init__, before any frame.
InitialSnapshot ==
  [movement_options |->
     [turn_left |-> <<>>, advance |-> <<>>, turn_right |-> <<>>, retreat |-> FALSE],
   lidar_string |-> "", valid_paths |-> NoFrame]

\* C11: at every moment of the derivation loop, what a reader gets from
\* movement_options, lidar_string and valid_paths is the snapshot of one single
\* frame (or the initial one): never buckets of one frame with the summary or
\* the frame of another, never a partially filled bucket.
C11_NoTornSnapshot ==
  IF valid_paths.id = 0
    THEN ReaderView = InitialSnapshot
    ELSE ReaderView = SnapshotOf(valid_paths)

\* ---- reconnect claims ---------------------------------------------------

\* The delays the schedule names, by the counter k at the start of the attempt.
ExpectedDelay(k) == IF k <= 5 THEN <<1, 2, 4, 8, 16, 32>>[k + 1] ELSE 60

\* A call of _attempt_reconnect has computed its delay and not yet returned.
Attempting == a_pc \notin {"idle", "locked"}

\* C12: the delay of the attempt that starts with the counter at k is
\* min(2^k, 60): 1, 2, 4, 8, 16, 32, 60, 60, ...; it never exceeds 60, and it
\* is not below the delay of the failed attempt right before it.
C12_BackoffSchedule ==
  Attempting =>
    /\ a_delay = ExpectedDelay(a_attempts - 1)
    /\ a_delay <= 60
    /\ (a_prev.outcome = "failed" /\ a_attempts = a_prev.attempts + 1)
         => a_delay >= a_prev.delay

\* The eighth failure in a row is waiting its delay: 60 after 60.
C12_Witness ==
  /\ a_pc = "sleep" /\ a_attempts = 8 /\ a_delay = 60
  /\ a_prev = [outcome |-> "failed", attempts |-> 7, delay |-> 60]

\* C13: a call of _attempt_reconnect that fails leaves the counter one above
\* what it was, one that succeeds leaves it 0, and one abandoned because the
\* provider is stopped leaves it as it was.
C13_CounterSteps ==
  [][/\ (a_pc = "fail" /\ a_pc' = "idle")
          => reconnect_attempts' = reconnect_attempts + 1
     /\ (a_pc = "success" /\ a_pc' = "idle") => reconnect_attempts' = 0
     /\ (a_pc \in {"locked", "recreate"} /\ a_pc' = "idle")
          => reconnect_attempts' = reconnect_attempts]_vars

\* C14: a tick of the monitor loop that finds the provider running with the
\* counter at _max_reconnect_attempts (or above) does not call
\* _attempt_reconnect: the loop goes to its wait and no client is stopped or
\* recreated by it.
C14_NoAttemptPastBudget ==
  [][(reconnect_thread = "locked" /\ reconnect_thread' # "locked" /\ running
        /\ reconnect_attempts >= MaxReconnectAttempts)
       => /\ reconnect_thread' = "wait"
          /\ ws_client' = ws_client /\ stream_ws_client' = stream_ws_client
          /\ ws_callbacks' = ws_callbacks /\ a_pc' = a_pc]_vars

\* Ten attempts in a row have failed, the provider runs, and the monitor loop
\* has ticked since and waits.
C14_Witness ==
  /\ running /\ reconnect_attempts = MaxReconnectAttempts
  /\ a_prev.outcome = "failed" /\ a_prev.attempts = MaxReconnectAttempts
  /\ reconnect_thread = "wait" /\ terminal_errors >= 1

\* C15: the "maximum reconnection attempts reached" error is logged once when
\* the attempts are used up, not once per tick of the monitor loop.
C15_TerminalErrorOnce == terminal_errors <= 1

\* The provider runs with attempts left, the monitor thread is alive, and the
\* connection of ws_client is lost.
LostWhileRunning ==
  /\ running /\ ws_client /\ connection_lost /\ MonitorAlive
  /\ reconnect_attempts < MaxReconnectAttempts

\* C16: while the provider runs with attempts left, a lost connection leads to
\* the monitor loop calling _attempt_reconnect (unless the provider is stopped
\* or restarted first).
C16_LostIsDetected ==
  LostWhileRunning ~> (reconnect_thread = "attempt" \/ ~running \/ ~connection_lost)

\* C17: when a call of _attempt_reconnect ends in success, every message
\* callback registered through register_message_callback so far is registered
\* on the new ws_client and, when there is one, on the new stream_ws_client.
C17_CallbacksSurvive ==
  [][(a_pc = "success" /\ a_pc' = "idle")
       => /\ registered \subseteq ws_callbacks'
          /\ stream_url => registered \subseteq stream_callbacks']_vars

\* The positions at which each thread is inside a `with self._lock:` block.
CallerLocked == {"start_locked", "start_rollback", "stop_locked", "reg_locked", "reg_none"}
AttemptLocked == {"locked", "recreate"}

\* C18: callers, monitor loop and _attempt_reconnect never deadlock on _lock:
\* a thread holds the lock only inside a `with` block, so it never asks for
\* it while holding it and never joins, sleeps or waits with it; and whoever
\* holds it can always take the step that releases it.
C18_NoDeadlock ==
  /\ \A t \in Callers :
       /\ lock = t <=> pc[t] \in CallerLocked
       /\ lock = t => ENABLED (\/ AsrStartGuard(t) \/ AsrStartRollback(t) \/ AsrStopGuard(t)
                               \/ RegisterCallback(t) \/ RegisterNone(t))
  /\ lock = Monitor <=> reconnect_thread = "locked"
  /\ lock = Monitor => ENABLED MonitorShould
  /\ lock = Attempter <=> a_pc \in AttemptLocked
  /\ lock = Attempter => ENABLED (AttemptCompute \/ AttemptRecreate)
  /\ lock \in Callers \cup {Monitor, Attempter, Free}

\* The owner is inside the locked block of stop() while the monitor loop and a
\* sleeping reconnect attempt both need the lock.
C18_Witness ==
  /\ lock = Owner /\ pc[Owner] = "stop_locked" /\ running
  /\ reconnect_thread = "should" /\ a_pc = "sleep"

\* C19: a stop() of the ASR provider that has begun its teardown returns
\* without raising, logs what a cleanup step raised, and returns only from
\* its last cleanup step, so that no step after a failed one is left out.
C19_BestEffortStop ==
  [][\A t \in Callers :
       (op[t] = "asr_stop" /\ pc[t] \notin {"idle", "stop_locked"} /\ pc'[t] = "idle")
         => /\ result'[t] = "ok"
            /\ raised_in'[t] # "none" => errors'[t] >= 1
            /\ pc[t] = IF stream_url THEN "stop_stream" ELSE "stop_ws"]_vars

\* stop() of SimplePathsProvider is inside a join() of a worker that will not
\* end.
StopBlocked ==
  \/ sp_pc = "join_process" /\ proc = "hung"
  \/ sp_pc = "join_derived" /\ derived_thread = "running" /\ ~sp_stop_event

\* C20: stop() of ASRProvider and of SimplePathsProvider always returns: the
\* join of the monitor thread can end with the thread alive, and no stop() is
\* left waiting for a worker that does not end.
C20_StopReturns ==
  /\ \A t \in Callers : pc[t] = "stop_join" => ENABLED AsrStopJoin(t)
  /\ ~StopBlocked

\* ---- worker process claims ------------------------------------------------

\* "STOP" is on the control queue.
StopQueued == \E i \in 1..Len(control_queue) : control_queue[i] = "STOP"

\* C21: the worker leaves its poll loop only by taking "STOP" from the control
\* queue, never on another command or an empty queue, and once "STOP" is on
\* the queue of a worker in its loop the worker eventually exits.
C21_StopEndsWorker ==
  /\ [][(proc = "loop" /\ proc' # "loop")
         => /\ control_queue # <<>> /\ Head(control_queue) = "STOP"
            /\ proc' = "exited"]_vars
  /\ [][(proc = "loop" /\ control_queue # <<>> /\ Head(control_queue) # "STOP"
           /\ control_queue' = Tail(control_queue))
         => proc' = "loop"]_vars
  /\ (proc = "loop" /\ StopQueued) ~> (proc = "exited")

\* The worker has dropped "PAUSE" and stayed in its loop, then exited on the
\* "STOP" that stop() queued behind it.
C21_Witness ==
  /\ proc = "exited" /\ taken = <<"PAUSE", "STOP">> /\ control_queue = <<>>
  /\ sp_pc \in {"stop_derived", "join_derived", "idle"}

\* C22: when opening the session or declaring the subscriber fails, one error
\* is logged and the worker goes on to its loop; while it is in the loop
\* without a subscriber no message reaches the data queue; and it still exits
\* once "STOP" is on the control queue.
C22_DegradedWorker ==
  /\ [][(proc = "opening" /\ proc' \notin {"opening", "hung"} /\ ~subscriber')
         => proc' = "loop" /\ open_errors' = open_errors + 1]_vars
  /\ [][(proc = "loop" /\ ~subscriber)
         => arrived' = arrived /\ data_queue' = data_queue]_vars
  /\ (proc = "loop" /\ ~subscriber /\ StopQueued) ~> (proc = "exited")

\* A worker whose setup failed has logged the error, received nothing and
\* exited on "STOP".
C22_Witness ==
  /\ proc = "exited" /\ ~subscriber /\ open_errors = 1
  /\ arrived = 0 /\ data_queue = <<>> /\ sp_stop_event

\* ---- more reconnect claims -------------------------------------------------

\* Positions of start() and stop() at which the next step writes self.running.
RunningWriters == {"start_locked", "start_rollback", "stop_locked"}

\* C23: running is written only by a step of start() or stop(): no step of
\* _attempt_reconnect (successful, failed or abandoned) and no step of the
\* monitor loop changes it, the step that finds the attempts used up included.
C23_ReconnectKeepsRunning ==
  [][/\ running' # running
        => \E t \in Callers : pc[t] \in RunningWriters /\ pc'[t] # pc[t]
     /\ ((a_pc' # a_pc \/ reconnect_thread' # reconnect_thread)
          /\ \A t \in Callers : pc'[t] = pc[t])
        => running' = running]_vars

\* The provider is still running after ten failed attempts, and the monitor
\* loop has found the attempts used up and gone back to waiting.
C23_Witness ==
  /\ running /\ reconnect_attempts = MaxReconnectAttempts
  /\ a_pc = "idle" /\ a_prev.outcome = "failed"
  /\ terminal_errors >= 1 /\ reconnect_thread = "wait"

\* ---- background plugin claims ---------------------------------------------

\* C24: a background plugin constructed without its required configuration
\* value (UnitreeGo2State without unitree_ethernet, Gps without serial_port)
\* raises to the caller and creates no provider.
C24_MissingConfigRaises ==
  \A i \in 1..Len(backgrounds) :
    backgrounds[i].config = "None" =>
      backgrounds[i].raised /\ ~backgrounds[i].provider

\* ---- more pipeline claims ---------------------------------------------------

\* C25: whenever the derivation loop has finished a frame, the four buckets
\* are those of that frame alone, whatever the frames before it held: no index
\* of an earlier frame is left and retreat is True only if the frame has 9.
C25_BucketsOfLastFrame ==
  (d_pc = "poll" /\ valid_paths.id >= 1 /\ paths = valid_paths)
  => movement_options = SnapshotOf(valid_paths).movement_options

\* The frame [6] has been processed as the third frame taken: its buckets
\* hold 6 alone.
C25_Witness ==
  /\ d_pc = "poll" /\ Len(consumed) = 3 /\ valid_paths.id = consumed[3]
  /\ valid_paths.paths = <<IntPath(6)>>
  /\ turn_left = <<>> /\ advance = <<>> /\ turn_right = <<6>> /\ ~retreat

\* C26: when the derivation loop takes an item that is None, has no `paths`
\* attribute or whose `paths` is not a list, the buckets, retreat, _valid_paths
\* and _lidar_string stay exactly as they were and the loop polls again; the
\* take after a rejected item is the head of the queue, as after any other.
C26_RejectLeavesSnapshot ==
  [][/\ (d_pc = "poll" /\ consumed' # consumed /\ paths'.kind # "list")
        => snapshotVars' = snapshotVars /\ d_pc' = "poll"
     /\ (d_pc = "poll" /\ paths.kind # "list" /\ consumed' # consumed)
        => paths' = Head(data_queue) /\ data_queue' = Tail(data_queue)]_vars

\* The frame [1, 4, 9] was processed, then an object without `paths` was
\* taken and rejected: the snapshot is still that of the frame, and a third
\* item waits in the queue.
C26_Witness ==
  /\ d_pc = "poll" /\ paths.kind = "noattr" /\ paths.id = 2
  /\ valid_paths.id = 1 /\ valid_paths.paths = <<IntPath(1), IntPath(4), IntPath(9)>>
  /\ turn_left = <<1>> /\ advance = <<4>> /\ retreat
  /\ Len(data_queue) = 1

\* C27: after a non-empty frame none of whose elements is an int in 0..9 is
\* processed (all buckets empty, retreat False), the summary is the warning
\* that the robot is surrounded and must not move.
C27_NoValidPathWarns ==
  (Processed /\ paths.paths # <<>> /\ ~Has(paths.paths, MinIndex, MaxIndex))
  => lidar_string =
       "You are surrounded by objects and cannot safely move in any direction. DO NOT MOVE."

\* C28: the frames the derivation loop takes are a subsequence of the frames
\* in their order of arrival: each frame taken arrived after the one taken
\* before it (none reordered, none taken twice), and the frame behind the
\* snapshot is the last one taken.
C28_FifoAmongRetained ==
  /\ \A i \in 1..Len(consumed) : consumed[i] >= 1 /\ consumed[i] <= arrived
  /\ \A i \in 1..(Len(consumed) - 1) : consumed[i] < consumed[i + 1]
  /\ valid_paths.id >= 1 => \E i \in 1..Len(consumed) : consumed[i] = valid_paths.id
  /\ (d_pc = "poll" /\ consumed # <<>>) => valid_paths.id = consumed[Len(consumed)]

\* Three frames were taken in order after a frame between them was evicted by
\* the callback.
C28_Witness ==
  /\ Len(consumed) = 3 /\ d_pc = "poll"
  /\ \E i \in 1..2 : consumed[i + 1] > consumed[i] + 1
  /\ cb_pc = "idle" /\ cb_last.evicted # <<>>

\* ---- lock claims -------------------------------------------------------------

\* Positions of start() and stop() of the two providers at which the caller
\* starts or stops a client or a stream, or joins the monitor thread.
SideEffectPositions ==
  {"start_ws", "start_audio", "start_stream", "start_register", "start_monitor",
   "stop_monitor", "stop_join", "stop_audio", "stop_ws", "stop_stream",
   "tts_start_stream", "tts_stop_stream"}

\* Positions of _attempt_reconnect at which it stops or starts a client or
\* sleeps for the backoff delay.
AttemptSideEffects == {"stop_ws", "stop_stream", "sleep", "start_ws", "start_stream"}

\* C29: no thread holds the lock of ASRProvider or of ElevenLabsTTSProvider
\* while it starts or stops a client or an audio stream, joins the monitor
\* thread or sleeps for the backoff delay; a holder is inside a locked block.
C29_LockOnlyForTransition ==
  /\ \A t \in Callers : pc[t] \in SideEffectPositions => lock # t /\ tts_lock # t
  /\ a_pc \in AttemptSideEffects => lock # Attempter
  /\ lock = Attempter => a_pc \in {"locked", "recreate"}
  /\ lock = Monitor => reconnect_thread = "locked"
  /\ \A t \in Callers :
       /\ lock = t => pc[t] \in {"start_locked", "start_rollback", "stop_locked"}
       /\ tts_lock = t => pc[t] \in {"tts_start_locked", "tts_stop_locked"}

\* While _attempt_reconnect sleeps for its delay, the owner has taken the
\* ASR lock for stop(), the TTS provider having been started before.
C29_Witness ==
  /\ a_pc = "sleep" /\ lock = Owner /\ pc[Owner] = "stop_locked"
  /\ tts_running /\ tts_stream /\ tts_lock = Free

\* C30: the attempt counter goes from a positive value back to 0 only in the
\* step that ends a successful reconnect: not in start(), stop() or a failed
\* or abandoned attempt.
C30_ResetOnlyOnSuccess ==
  [][(reconnect_attempts > 0 /\ reconnect_attempts' = 0)
       => a_pc = "success" /\ a_pc' = "idle"]_vars

\* ---- claims on the monitor threads ------------------------------------------

\* Monitor threads alive: the one self._reconnect_thread refers to and the
\* replaced ones.
MonitorsAlive == (IF MonitorAlive THEN 1 ELSE 0) + Len(old_monitors)

\* C36: for any sequence of start() and stop() calls on an ASRProvider at most
\* one reconnect monitor thread is alive at any time, and whenever the provider
\* is running with its start() completed a monitor thread is alive and looping.
C36_OneMonitorLooping ==
  /\ MonitorsAlive <= 1
  /\ (Quiescent /\ running) => MonitorAlive

\* ---- claims on a reconnect beside start() and stop() ------------------------

\* C39: a successful reconnect restores the audio routing start() established:
\* when it ends, the audio data callback sends to stream_ws_client if a
\* stream_url is configured, and to ws_client otherwise.
C39_ReconnectRestoresRouting ==
  [][(a_pc = "success" /\ a_pc' = "idle" /\ running /\ pc[Owner] = "idle")
       => audio_callback' = (IF stream_url THEN "stream" ELSE "ws")]_vars

\* The owner's last call was a stop() of the running provider that has
\* returned with nothing raised inside it; the owner has called nothing since.
StopReturned ==
  /\ pc[Owner] = "idle" /\ op[Owner] = "asr_stop" /\ result[Owner] = "ok"
  /\ entered_running[Owner] /\ raised_in[Owner] = "none"

\* C35: once stop() has returned and no later start() is called, no transport
\* client is started, whatever a reconnect attempt in flight does afterwards.
C35_NoClientAfterStop ==
  StopReturned => ~ws_client /\ ~stream_ws_client

C31_LoopsExitOnStop ==
  /\ (stop_reconnect /\ MonitorAlive) ~> ~MonitorAlive
  /\ (sp_stop_event /\ derived_thread = "running") ~> (derived_thread = "exited")

\* Where the caller of SimplePathsProvider.stop() stands after the event is set.
StopPositions == {"stop_process", "join_process", "stop_derived", "join_derived"}

\* C37: SimplePathsProvider is restartable: the workers a start() leaves keep
\* running, so a worker process or a derivation thread ends only while a
\* stop() is in progress.
C37_Restartable ==
  [][(\/ derived_thread = "running" /\ derived_thread' = "exited"
      \/ proc = "loop" /\ proc' = "exited")
       => sp_pc \in StopPositions]_vars

\* ---- claims on concurrent start() -------------------------------------------

\* Positions of start() of the ASR provider after its locked block.
PastStartGuard ==
  {"start_ws", "start_audio", "start_stream", "start_register", "start_monitor",
   "start_thread", "start_except", "start_rollback"}

\* C32: when two threads call start() concurrently on a stopped provider, one
\* set of workers is spawned: for ASRProvider one caller gets past the guard
\* and at most one monitor thread is alive, for SimplePathsProvider there is
\* one live worker process and one live derivation thread.
C32_OneSetOfWorkers ==
  /\ Cardinality({t \in Callers : pc[t] \in PastStartGuard}) <= 1
  /\ MonitorsAlive <= 1
  /\ orphans.process = 0 /\ orphans.derived = 0

\* ---- claims on the TTS provider --------------------------------------------

\* Where the caller of add_pending_message stands after its locked block.
AddPositions == {"tts_add_create", "tts_add_request"}

\* Every request on every stream object.
AllPending == UNION {{tts_streams[i].pending[k] : k \in 1..Len(tts_streams[i].pending)} :
                       i \in 1..Len(tts_streams)}

\* C33: add_pending_message on a provider that is not running logs one warning
\* and enqueues nothing on any stream; on a running provider it enqueues
\* exactly one request on the current audio stream, a str message expanded
\* first with the provider's current voice_id, model_id and output_format.
C33_AddPendingMessage ==
  /\ [][(pc[Owner] = "tts_add_locked" /\ pc'[Owner] # pc[Owner])
          => IF tts_running
               THEN pc'[Owner] \in AddPositions /\ tts_streams' = tts_streams
               ELSE /\ pc'[Owner] = "idle" /\ result'[Owner] = "ok"
                    /\ warnings'[Owner] = 1 /\ tts_streams' = tts_streams]_vars
  /\ [][(pc[Owner] = "tts_add_create" /\ pc'[Owner] # pc[Owner])
          => pc'[Owner] = "tts_add_request" /\ tts_streams' = tts_streams]_vars
  /\ [][(pc[Owner] = "tts_add_request" /\ result'[Owner] = "ok")
          => \E m \in {Message("dict", 0), Message("request", tts_params)} :
               tts_streams' = [tts_streams EXCEPT ![tts_audio_stream].pending = Append(@, m)]]_vars
  /\ [](\A m \in AllPending : m.kind # "str")

\* A str message was added to the running provider after configure() replaced
\* the stream and the parameters: the request is on the new stream, with the
\* new parameters.
C33_Witness ==
  /\ op[Owner] = "tts_add" /\ pc[Owner] = "idle" /\ result[Owner] = "ok"
  /\ entered_running[Owner] /\ tts_audio_stream = 2
  /\ tts_streams[2].pending = <<Message("request", 1)>>
  /\ tts_streams[1].pending = <<>>

\* The stream objects other than the current one that are started.
OtherStarted == {i \in 1..Len(tts_streams) : i # tts_audio_stream /\ tts_streams[i].started}

\* C34: configure() with no concurrent caller changes nothing when every
\* parameter equals the current configuration; otherwise, when it returns,
\* the audio stream is a new object and the lifecycle state is as before: a
\* provider that was running runs with the new stream started and the old one
\* stopped, a stopped provider is stopped with the new stream not started.
C34_ConfigureKeepsLifecycle ==
  /\ [][(pc[Owner] = "tts_cfg_locked" /\ ~restart_needed(tts_local[Owner].arg))
          => /\ pc'[Owner] = "idle" /\ result'[Owner] = "ok"
             /\ <<tts_running, tts_audio_stream, tts_streams, tts_params>>'
                  = <<tts_running, tts_audio_stream, tts_streams, tts_params>>]_vars
  /\ [][(pc[Owner] \in {"tts_cfg_swap", "tts_cfg_start_locked", "tts_cfg_start_stream"}
           /\ pc'[Owner] = "idle" /\ result'[Owner] = "ok")
          => /\ tts_audio_stream' = tts_local[Owner].new_stream
             /\ tts_audio_stream' = Len(tts_streams')
             /\ tts_streams'[tts_audio_stream'].url = tts_local[Owner].arg.url
             /\ tts_params' = tts_local[Owner].arg.params
             /\ tts_running' = tts_local[Owner].was_running
             /\ tts_streams'[tts_audio_stream'].started = tts_local[Owner].was_running
             /\ tts_local[Owner].was_running => OtherStarted' = {}]_vars
  /\ [][(pc[Owner] = "tts_cfg_locked" /\ restart_needed(tts_local[Owner].arg)
           /\ result'[Owner] # "raised")
          => tts_local'[Owner].was_running = tts_running]_vars

\* configure() with a new url has returned on a provider that was running:
\* it runs, the second stream object is the current one and is started, the
\* first one is stopped.
C34_Witness ==
  /\ op[Owner] = "tts_configure" /\ pc[Owner] = "idle" /\ result[Owner] = "ok"
  /\ tts_running /\ tts_audio_stream = 2
  /\ tts_streams[2].started /\ ~tts_streams[1].started /\ tts_streams[2].url = 1

\* C38: for any interleaving of configure(), start() and stop() from different
\* threads in which no call raises, once all calls have returned, running
\* implies that the current audio stream is started, and no other audio
\* stream is left started.
C38_StreamsMatchRunning ==
  (Quiescent /\ ~may_raise)
    => /\ tts_running => tts_streams[tts_audio_stream].started
       /\ OtherStarted = {}

====
